---- MODULE Spec2Model ----
(***************************************************************************)
(* Aranet4 reader: the worker-based polling loop of src/index.js           *)
(* (main, runWorker, postToServer, sendErrorEmail) and the reading worker  *)
(* of src/worker.js (performReading, startScanning, connectAndRead,        *)
(* parseCurrentReadings).                                                  *)
(*                                                                         *)
(* Time is in milliseconds, as Date.now() and setTimeout count it.         *)
(***************************************************************************)
EXTENDS Integers, Sequences, FiniteSets, TLC

VARIABLES
    \* ---- main thread: main() of src/index.js:372-403
    mainPc,        \* "tick" | "await" | "email" | "sleep" | "exited"
    clock,         \* wall clock, what Date.now() returns
    now,           \* const now = Date.now()            (index.js:381)
    lastRunTime,   \* let lastRunTime = 0               (index.js:374)
    cur,           \* number of runWorker invocations made so far
    inflight,      \* runWorker promises created and not yet settled
    caught,        \* the error main's catch block received, or "none"
    emails,        \* sendErrorEmail calls made for the current attempt
    emailResult,   \* how this attempt's sendErrorEmail call ended, or "none"
    prevOutcome,   \* outcome of the attempt before the current one
    prevSettleTime,\* clock at which that attempt's outcome was delivered
    \* ---- one runWorker invocation: src/index.js:315-369
    isTerminated,  \* let isTerminated = false          (index.js:318)
    timer,         \* "armed" | "cleared" | "fired"     (timeoutId)
    promise,       \* "none" | "pending" | "success" | "failure" | "timeout"
    rejectedWith,  \* the error the promise was rejected with, or "none"
    settleCalls,   \* number of resolve()/reject() calls made
    posting,       \* the message handler is suspended in await postToServer
    posts,         \* readings handed to axios.post by this invocation
    postResult,    \* how the handler's postToServer call ended, "none" before
    dropped,       \* kind of a message handled when isTerminated was already
                   \* set ("success" | "failure"), "none" if there was none
    startTime,     \* clock when the invocation was launched
    settleTime,    \* clock when its outcome was delivered, -1 before
    \* ---- the worker thread and its events towards the parent
    worker,        \* "none" | "running" | "terminating" | "exited" | "reaped"
    msg,           \* message posted and not yet handled, or NoMsg
    errEvt,        \* 'error' event raised and not yet handled
    exitEvt,       \* exit code of a pending 'exit' event, or -1
    sent,          \* parentPort.postMessage calls made by this worker
    handled,       \* the events whose handler ran with isTerminated unset
    seen,          \* the events whose handler ran at all
    \* ---- inside the worker: src/worker.js
    wpc,           \* position of performReading
    werror,        \* the error connectAndRead's catch block holds, or "none"
    data,          \* what the characteristic read returned
    readings,      \* result of parseCurrentReadings, or NoReading
    isConnected,   \* let isConnected = false of startScanning  (worker.js:31)
    scanResolves,  \* resolve(peripheral) calls made by startScanning
    stopsPending,  \* handleDiscover calls suspended in await stopScanningAsync
    lateDiscover,  \* a matching advertisement was handled with the flag set
    catchState,    \* peripheral.state as connectAndRead's catch block read it
    cleanupDisc,   \* how the catch block's disconnect ended, "none" if not issued
    \* ---- the BLE world
    adapter,       \* noble.state: "poweredOn" | "poweredOff"
    link,          \* peripheral.state: "connected" | "disconnected"
    linkOwner,     \* the attempt whose worker opened the connection, 0 if none
    \* ---- signals and cleanup(): src/index.js:406-423, 624-646, 927-946
    sdVariant,     \* whose cleanup runs: "worker" | "event" | "inproc"
    device,        \* aranet4Device of the main thread: "null" | "set"
    scanning,      \* the adapter is scanning for the program
    signals,       \* SIGINT / SIGTERM received so far
    sigPhase,      \* what the program was doing when the first one arrived
    sdPc,          \* position of each cleanup() call
    stopTried,     \* a cleanup() call has called noble.stopScanningAsync
    discTried,     \* a cleanup() call has called aranet4Device.disconnectAsync
    proc,          \* "up" | "exited" (process.exit was called)
    \* ---- startScanning and the session in the main thread:
    \*      src/index.js:150-293, 586-621, 755-924
    lsState,       \* 'stateChange' listeners registered on noble
    lsDiscover,    \* 'discover' listeners registered on noble
    lsSecurity,    \* 'security' listeners registered on noble
    hWait,         \* handleStateChange calls waiting 2 s after the adapter reset
    offStart,      \* startScanningAsync was called with the adapter not poweredOn
    unrecovered,   \* a failed scan start was left as it was (logged)
    scanPromise,   \* "none" | "pending" | "resolved" | "rejected"
    linux,         \* process.platform === 'linux'
    pairing,       \* "none" | "prompting" | "sent" | "ignored"
    challengeAt,   \* position of the session when the 'security' event came
    prompts,       \* getPIN() prompts opened by that event
    adverts,       \* matching advertisements delivered to the 'discover' handler
    dpc            \* position of each call of the event-driven 'discover' handler

vars == << mainPc, clock, now, lastRunTime, cur, inflight, caught, emails,
           emailResult, prevOutcome, prevSettleTime,
           isTerminated, timer, promise, rejectedWith, settleCalls, posting,
           posts, postResult, dropped, startTime, settleTime,
           worker, msg, errEvt, exitEvt, sent, handled, seen,
           wpc, werror, data, readings,
           isConnected, scanResolves, stopsPending, lateDiscover,
           catchState, cleanupDisc, adapter, link, linkOwner,
           sdVariant, device, scanning, signals, sigPhase, sdPc, stopTried,
           discTried, proc,
           lsState, lsDiscover, lsSecurity, hWait, offStart, unrecovered,
           scanPromise, linux, pairing, challengeAt, prompts, adverts, dpc >>

mainVars   == << mainPc, now, lastRunTime, cur, caught, emails, emailResult,
                 prevOutcome, prevSettleTime >>
runVars    == << isTerminated, timer, promise, rejectedWith, settleCalls,
                 posting, posts, postResult, dropped, startTime, settleTime,
                 inflight >>
threadVars == << worker, msg, errEvt, exitEvt, sent >>
evtVars    == << handled, seen >>
scanVars   == << isConnected, scanResolves, stopsPending, lateDiscover >>
catchVars  == << catchState, cleanupDisc >>
wVars      == << wpc, werror, data, readings, scanVars, catchVars >>
bleVars    == << adapter, link, linkOwner >>
lsVars     == << lsState, lsDiscover, lsSecurity >>
pinVars    == << pairing, challengeAt, prompts >>
ipVars     == << lsVars, hWait, offStart, unrecovered, scanPromise, linux,
                 pinVars, adverts, dpc >>
sdVars     == << sdVariant, device, scanning, signals, sigPhase, sdPc,
                 stopTried, discTried, proc >>

----------------------------------------------------------------------------
\* Program constants.
POLLING_INTERVAL == 1800000
TICK_BUFFER == 5000
WORKER_TIMEOUT == 60000
MIN_LENGTH == 7

\* Bounds of the model.
MaxAttempts == 2
\* matching advertisements the event-driven program is followed through
MaxAdverts == 2
Quantum == 60000
StartTime == 2000000
MaxLen == 8
MaxSignals == 2

NoMsg == [kind |-> "none"]
NoReading == [kind |-> "none"]
NoData == [isBuffer |-> FALSE, bytes |-> << >>]

Max(a, b) == IF a >= b THEN a ELSE b

----------------------------------------------------------------------------
(* parseCurrentReadings: src/worker.js:7-27, src/index.js:48-73.           *)
(* A buffer is a sequence of bytes; the input is a record saying whether   *)
(* it is a Buffer at all.  A quotient x / k of the code is kept as the     *)
(* fraction in lowest terms.                                               *)

RECURSIVE GCD(_, _)
GCD(a, b) == IF b = 0 THEN a ELSE GCD(b, a % b)

Abs(x) == IF x < 0 THEN -x ELSE x

\* x / k for k > 0, as the fraction n/d in lowest terms
Quot(x, k) ==
    LET g == GCD(Abs(x), k)
    IN  [n |-> x \div g, d |-> k \div g]

\* buf.readUInt8(off): byte at 0-based offset off
ReadUInt8(b, off) == b[off + 1]

\* buf.readUInt16LE(off): first + last * 2^8
ReadUInt16LE(b, off) == b[off + 1] + b[off + 2] * 256

\* buf.readInt16LE(off): the 16-bit value, sign-extended
ReadInt16LE(b, off) ==
    LET val == b[off + 1] + b[off + 2] * 256
    IN  IF val >= 32768 THEN val - 65536 ELSE val

\* the reads of the try block raise a range error past the end of the buffer
InRange(b, off, width) == off + width <= Len(b)

\* a plausible slip: temperature read as an unsigned value
ParseUnsignedTemperature(d, t) ==
    IF ~d.isBuffer THEN [kind |-> "error", error |-> "NotABuffer"]
    ELSE IF Len(d.bytes) < MIN_LENGTH THEN [kind |-> "error", error |-> "TooShort"]
    ELSE [kind |-> "reading",
          co2 |-> ReadUInt16LE(d.bytes, 0),
          temperature |-> Quot(ReadUInt16LE(d.bytes, 2), 20),
          humidity |-> ReadUInt8(d.bytes, 6),
          pressure |-> Quot(ReadUInt16LE(d.bytes, 4), 10),
          timestamp |-> t]

\* a plausible slip: the length check off by one (length < 6)
ParseLengthOffByOne(d, t) ==
    IF ~d.isBuffer THEN [kind |-> "error", error |-> "NotABuffer"]
    ELSE IF Len(d.bytes) < MIN_LENGTH - 1 THEN [kind |-> "error", error |-> "TooShort"]
    ELSE IF ~(InRange(d.bytes, 0, 2) /\ InRange(d.bytes, 2, 2)
              /\ InRange(d.bytes, 6, 1) /\ InRange(d.bytes, 4, 2))
         THEN [kind |-> "error", error |-> "ParseFailed"]
    ELSE [kind |-> "reading",
          co2 |-> ReadUInt16LE(d.bytes, 0),
          temperature |-> Quot(ReadInt16LE(d.bytes, 2), 20),
          humidity |-> ReadUInt8(d.bytes, 6),
          pressure |-> Quot(ReadUInt16LE(d.bytes, 4), 10),
          timestamp |-> t]

parseCurrentReadings(d, t) ==
    IF ~d.isBuffer THEN [kind |-> "error", error |-> "NotABuffer"]
    ELSE IF Len(d.bytes) < MIN_LENGTH THEN [kind |-> "error", error |-> "TooShort"]
    ELSE IF ~(InRange(d.bytes, 0, 2) /\ InRange(d.bytes, 2, 2)
              /\ InRange(d.bytes, 6, 1) /\ InRange(d.bytes, 4, 2))
         THEN [kind |-> "error", error |-> "ParseFailed"]
    ELSE [kind |-> "reading",
          co2 |-> ReadUInt16LE(d.bytes, 0),
          temperature |-> Quot(ReadInt16LE(d.bytes, 2), 20),
          humidity |-> ReadUInt8(d.bytes, 6),
          pressure |-> Quot(ReadUInt16LE(d.bytes, 4), 10),
          timestamp |-> t]

\* The payload of the specification's scenario: E8 03 F0 00 C8 27 32.
ExamplePayload == << 232, 3, 240, 0, 200, 39, 50 >>

\* Byte values tried at position i: the extremes, the example's byte and, in
\* the high byte of the temperature, the sign bit alone.
ByteSamples(i) ==
    IF i > Len(ExamplePayload) THEN {0, 255}
    ELSE {0, 255, ExamplePayload[i]} \cup (IF i = 4 THEN {128} ELSE {})

RECURSIVE SampleBuffers(_)
SampleBuffers(len) ==
    IF len = 0 THEN { << >> }
    ELSE { Append(b, x) : b \in SampleBuffers(len - 1), x \in ByteSamples(len) }

\* Inputs of the decoder: buffers of every length up to MaxLen, and values
\* that are no Buffer (null, a string, an array).
DecodeInputs ==
    { [isBuffer |-> TRUE, bytes |-> b] :
          b \in UNION { SampleBuffers(len) : len \in 0..MaxLen } }
    \cup { [isBuffer |-> FALSE, bytes |-> b] : b \in { << >>, ExamplePayload } }

\* What the characteristic read hands to connectAndRead in the polling model.
ReadPayloads ==
    { [isBuffer |-> TRUE, bytes |-> ExamplePayload],
      [isBuffer |-> TRUE, bytes |-> << 232, 3, 240, 0, 200 >>],
      [isBuffer |-> TRUE, bytes |-> << >>],
      NoData }


----------------------------------------------------------------------------
(* The sinks: postToServer (src/index.js:76-104) and sendErrorEmail        *)
(* (src/index.js:109-148).  Each is a function of what the remote service  *)
(* does; its value says how the call ended: a log line and a normal        *)
(* return, or "threw" when an exception leaves the function.               *)

\* What the HTTP endpoint does with one POST: a status, or no response.
HttpOutcomes ==
    { [kind |-> "status", status |-> 200], [kind |-> "status", status |-> 204],
      [kind |-> "status", status |-> 500], [kind |-> "neterr", status |-> 0] }

\* axios.post rejects on a transport error and on a status outside 2xx.
AxiosPost(resp) ==
    IF resp.kind = "neterr" \/ resp.status < 200 \/ resp.status > 299
    THEN [threw |-> TRUE, status |-> 0]
    ELSE [threw |-> FALSE, status |-> resp.status]

\* a plausible slip: the request is made outside the try block
postToServerNoCatch(resp) ==
    LET r == AxiosPost(resp)
    IN  IF r.threw THEN "threw"
        ELSE IF r.status = 200 THEN "posted" ELSE "logged_status"

postToServer(resp) ==
    LET r == AxiosPost(resp)
    IN  IF r.threw THEN "logged_error"                    \* catch (error)
        ELSE IF r.status = 200 THEN "posted" ELSE "logged_status"

\* What the mail service does with one message.
MailOutcomes == { "sent", "sendError" }

\* a plausible slip: sgMail.send awaited outside the try block
sendErrorEmailNoCatch(r) ==
    IF r = "sent" THEN "sent" ELSE "threw"

sendErrorEmail(r) ==
    IF r = "sent" THEN "sent" ELSE "logged_error"         \* catch (emailError)

----------------------------------------------------------------------------
(* runWorker: src/index.js:315-369.                                        *)

Alive == mainPc # "exited"

\* worker.terminate(): asks the thread to stop; a thread already gone stays so
Terminate == worker' = IF worker = "running" THEN "terminating" ELSE worker

\* clearTimeout(timeoutId)
ClearTimeout == timer' = IF timer = "armed" THEN "cleared" ELSE timer

\* resolve(...) / reject(...): only the first call settles the promise
Settle(outcome, err, t) ==
    /\ settleCalls' = settleCalls + 1
    /\ promise' = IF promise = "pending" THEN outcome ELSE promise
    /\ rejectedWith' = IF promise = "pending" THEN err ELSE rejectedWith
    /\ settleTime' = IF promise = "pending" THEN t ELSE settleTime
    /\ inflight' = IF promise = "pending" THEN inflight - 1 ELSE inflight

NoSettle == UNCHANGED << settleCalls, promise, rejectedWith, settleTime, inflight >>

\* The promise executor: new Worker, the flag, the deadline timer, the handlers.
RunWorkerLaunch ==
    /\ worker' = "running"
    /\ wpc' = "start"
    /\ isTerminated' = FALSE
    /\ timer' = "armed"
    /\ promise' = "pending"
    /\ inflight' = inflight + 1
    /\ startTime' = clock
    /\ settleTime' = -1
    /\ rejectedWith' = "none"
    /\ settleCalls' = 0
    /\ posting' = FALSE
    /\ posts' = 0
    /\ postResult' = "none"
    /\ dropped' = "none"
    /\ msg' = NoMsg
    /\ sent' = 0
    /\ errEvt' = FALSE
    /\ exitEvt' = -1
    /\ handled' = {}
    /\ seen' = {}
    /\ werror' = "none"
    /\ data' = NoData
    /\ readings' = NoReading
    /\ isConnected' = FALSE
    /\ scanResolves' = 0
    /\ stopsPending' = 0
    /\ lateDiscover' = FALSE
    /\ catchState' = "none"
    /\ cleanupDisc' = "none"

\* a plausible slip: the deadline rejects without terminating the worker
TimerFireNoTerminate ==
    /\ Alive /\ timer = "armed"
    /\ clock' = Max(clock, startTime + WORKER_TIMEOUT)
    /\ timer' = "fired"
    /\ seen' = seen \cup {"timer"}
    /\ IF ~isTerminated
       THEN /\ isTerminated' = TRUE
            /\ handled' = handled \cup {"timer"}
            /\ Settle("timeout", "Timeout", Max(clock, startTime + WORKER_TIMEOUT))
       ELSE /\ UNCHANGED << isTerminated, handled >>
            /\ NoSettle
    /\ UNCHANGED << ipVars, sdVars, mainVars, posting, posts, postResult, dropped,
                    startTime, threadVars, wVars, bleVars >>

\* setTimeout(() => {...}, 60000): index.js:320-326
TimerFire ==
    /\ Alive /\ timer = "armed"
    /\ clock' = Max(clock, startTime + WORKER_TIMEOUT)
    /\ timer' = "fired"
    /\ seen' = seen \cup {"timer"}
    /\ IF ~isTerminated
       THEN /\ isTerminated' = TRUE
            /\ handled' = handled \cup {"timer"}
            /\ Terminate
            /\ Settle("timeout", "Timeout", Max(clock, startTime + WORKER_TIMEOUT))
       ELSE /\ UNCHANGED << isTerminated, handled, worker >>
            /\ NoSettle
    /\ UNCHANGED << ipVars, sdVars, mainVars, posting, posts, postResult, dropped, startTime,
                    msg, sent, errEvt, exitEvt, wVars, bleVars >>

MsgKind(m) == IF m.success THEN "success" ELSE "failure"

\* a plausible slip: the message handler without its isTerminated guard
OnMessageNoGuard ==
    /\ Alive /\ msg # NoMsg /\ worker # "reaped"
    /\ ClearTimeout
    /\ msg' = NoMsg
    /\ sent' = sent
    /\ seen' = seen \cup {"message"}
    /\ isTerminated' = TRUE
    /\ handled' = handled \cup {"message"}
    /\ dropped' = dropped
    /\ IF msg.success
       THEN /\ posting' = TRUE
            /\ posts' = posts + 1
            /\ NoSettle
            /\ UNCHANGED worker
       ELSE /\ Settle("failure", msg.error, clock)
            /\ Terminate
            /\ UNCHANGED << posting, posts >>
    /\ UNCHANGED << ipVars, sdVars, mainVars, clock, postResult, startTime, errEvt, exitEvt,
                    wVars, bleVars >>

\* worker.on('message', ...) up to its await: index.js:328-348
OnMessage ==
    /\ Alive /\ msg # NoMsg /\ worker # "reaped"
    /\ ClearTimeout
    /\ msg' = NoMsg
    /\ sent' = sent
    /\ seen' = seen \cup {"message"}
    /\ IF ~isTerminated
       THEN /\ isTerminated' = TRUE
            /\ handled' = handled \cup {"message"}
            /\ dropped' = dropped
            /\ IF msg.success
               THEN \* postToServer(message.data) is called and awaited
                    /\ posting' = TRUE
                    /\ posts' = posts + 1
                    /\ NoSettle
                    /\ UNCHANGED worker
               ELSE /\ Settle("failure", msg.error, clock)
                    /\ Terminate
                    /\ UNCHANGED << posting, posts >>
       ELSE /\ dropped' = MsgKind(msg)
            /\ Terminate
            /\ NoSettle
            /\ UNCHANGED << isTerminated, handled, posting, posts >>
    /\ UNCHANGED << ipVars, sdVars, mainVars, clock, postResult, startTime, errEvt, exitEvt,
                    wVars, bleVars >>

\* a plausible slip: a failed post treated as a failed attempt
PostDoneEscalates(resp) ==
    /\ Alive /\ posting
    /\ posting' = FALSE
    /\ postResult' = postToServer(resp)
    /\ IF postToServer(resp) = "posted"
       THEN Settle("success", "none", clock)
       ELSE Settle("failure", "PostFailed", clock)
    /\ Terminate
    /\ UNCHANGED << ipVars, sdVars, clock, mainPc, now, lastRunTime, cur, caught, emails,
                    emailResult, prevOutcome, prevSettleTime, isTerminated,
                    timer, posts, dropped, startTime, msg, sent, errEvt, exitEvt,
                    evtVars, wVars, bleVars >>

\* the rest of the message handler, once postToServer has returned:
\* resolve('success'); worker.terminate().  An exception leaving postToServer
\* would reject the handler's promise with nothing to catch it, which ends
\* the process.                                           index.js:341-347
PostDone(resp) ==
    /\ Alive /\ posting
    /\ posting' = FALSE
    /\ postResult' = postToServer(resp)
    /\ IF postToServer(resp) = "threw"
       THEN /\ mainPc' = "exited"
            /\ NoSettle
            /\ UNCHANGED worker
       ELSE /\ Settle("success", "none", clock)
            /\ Terminate
            /\ UNCHANGED mainPc
    /\ UNCHANGED << ipVars, sdVars, clock, now, lastRunTime, cur, caught, emails, emailResult,
                    prevOutcome, prevSettleTime, isTerminated, timer, posts,
                    dropped, startTime, msg, sent, errEvt, exitEvt, evtVars, wVars,
                    bleVars >>

\* a plausible slip: the error handler without its isTerminated guard
OnErrorNoGuard ==
    /\ Alive /\ errEvt /\ msg = NoMsg
    /\ ClearTimeout
    /\ errEvt' = FALSE
    /\ seen' = seen \cup {"error"}
    /\ isTerminated' = TRUE
    /\ handled' = handled \cup {"error"}
    /\ Terminate
    /\ Settle("failure", "WorkerError", clock)
    /\ UNCHANGED << ipVars, sdVars, mainVars, clock, posting, posts, postResult, dropped,
                    startTime, msg, sent, exitEvt, wVars, bleVars >>

\* worker.on('error', ...): index.js:350-357
OnError ==
    /\ Alive /\ errEvt /\ msg = NoMsg
    /\ ClearTimeout
    /\ errEvt' = FALSE
    /\ seen' = seen \cup {"error"}
    /\ IF ~isTerminated
       THEN /\ isTerminated' = TRUE
            /\ handled' = handled \cup {"error"}
            /\ Terminate
            /\ Settle("failure", "WorkerError", clock)
       ELSE /\ NoSettle
            /\ UNCHANGED << isTerminated, handled, worker >>
    /\ UNCHANGED << ipVars, sdVars, mainVars, clock, posting, posts, postResult, dropped,
                    startTime, msg, sent, exitEvt, wVars, bleVars >>

ExitKind(code) == IF code # 0 THEN "exitNonZero" ELSE "exitZero"

\* a plausible slip: a non-zero exit handled without rejecting
OnExitNoReject ==
    /\ Alive /\ exitEvt >= 0 /\ msg = NoMsg /\ ~errEvt
    /\ ClearTimeout
    /\ exitEvt' = -1
    /\ worker' = "reaped"
    /\ seen' = seen \cup {ExitKind(exitEvt)}
    /\ isTerminated' = TRUE
    /\ handled' = IF ~isTerminated THEN handled \cup {ExitKind(exitEvt)} ELSE handled
    /\ NoSettle
    /\ UNCHANGED << ipVars, sdVars, mainVars, clock, posting, posts, postResult, dropped,
                    startTime, msg, sent, errEvt, wVars, bleVars >>

\* worker.on('exit', ...): index.js:359-367
OnExit ==
    /\ Alive /\ exitEvt >= 0 /\ msg = NoMsg /\ ~errEvt
    /\ ClearTimeout
    /\ exitEvt' = -1
    /\ worker' = "reaped"
    /\ seen' = seen \cup {ExitKind(exitEvt)}
    /\ IF ~isTerminated
       THEN /\ isTerminated' = TRUE
            /\ handled' = handled \cup {ExitKind(exitEvt)}
            /\ IF exitEvt # 0
               THEN Settle("failure", "ExitCode", clock)
               ELSE NoSettle
       ELSE /\ NoSettle
            /\ UNCHANGED << isTerminated, handled >>
    /\ UNCHANGED << ipVars, sdVars, mainVars, clock, posting, posts, postResult, dropped,
                    startTime, msg, sent, errEvt, wVars, bleVars >>

----------------
(* The worker thread: src/worker.js.  Every step runs only while the       *)
(* thread runs; an awaited BLE call that never completes is a step that    *)
(* is never taken.                                                         *)

Running == Alive /\ worker = "running"

FailureMsg(e) == [kind |-> "msg", success |-> FALSE, error |-> e, data |-> NoReading]
SuccessMsg(r) == [kind |-> "msg", success |-> TRUE, error |-> "none", data |-> r]

\* parentPort.postMessage(m); performReading returns.   worker.js:127-134
PostMessage(m) == msg' = m /\ sent' = sent + 1 /\ wpc' = "done"

\* peripheral.state as this worker's noble instance reports it
PeripheralConnected == link = "connected" /\ linkOwner = cur

\* handleStateChange('poweredOn'): await noble.startScanningAsync([], false),
\* reject(error) when it fails.                          worker.js:33-41
ScanStart(ok) ==
    IF ok THEN wpc' = "scanning" /\ UNCHANGED << msg, sent >>
          ELSE PostMessage(FailureMsg("ScanStartFailed"))

\* startScanning up to its initial state check.          worker.js:29-67
W_StartScanning(ok) ==
    /\ Running /\ wpc = "start"
    /\ IF adapter = "poweredOn"
       THEN ScanStart(ok)
       ELSE wpc' = "waitPower" /\ UNCHANGED << msg, sent >>
    /\ UNCHANGED << ipVars, sdVars, mainVars, clock, runVars, worker, errEvt, exitEvt, evtVars,
                    werror, data, readings, scanVars, catchVars, bleVars >>

\* the 'stateChange' listener receives 'poweredOn'.      worker.js:33-41, 59
W_StateChange(ok) ==
    /\ Running /\ wpc = "waitPower" /\ adapter = "poweredOn"
    /\ ScanStart(ok)
    /\ UNCHANGED << ipVars, sdVars, mainVars, clock, runVars, worker, errEvt, exitEvt, evtVars,
                    werror, data, readings, scanVars, catchVars, bleVars >>

\* a plausible slip: handleDiscover without its !isConnected test
W_DiscoverNoFlag ==
    /\ Running /\ wpc \in {"scanning", "stopScan"} /\ link = "disconnected"
    /\ stopsPending < 2
    /\ isConnected' = TRUE
    /\ stopsPending' = stopsPending + 1
    /\ wpc' = "stopScan"
    /\ lateDiscover' = (lateDiscover \/ isConnected)
    /\ UNCHANGED << ipVars, sdVars, mainVars, clock, runVars, threadVars, evtVars,
                    werror, data, readings, scanResolves, catchVars, bleVars >>

\* handleDiscover is called with a matching advertisement.  With the flag
\* unset it sets the flag, removes both listeners and awaits
\* stopScanningAsync; with the flag set it does nothing.  The call can come
\* while that await is pending: advertisements noble was already
\* dispatching when the listener was removed.  A peripheral that is in a
\* connection does not advertise.                        worker.js:43-56
W_Discover ==
    /\ Running /\ wpc \in {"scanning", "stopScan"} /\ link = "disconnected"
    /\ IF ~isConnected
       THEN /\ isConnected' = TRUE
            /\ stopsPending' = stopsPending + 1
            /\ wpc' = "stopScan"
            /\ UNCHANGED lateDiscover
       ELSE /\ lateDiscover' = TRUE
            /\ UNCHANGED << isConnected, stopsPending, wpc >>
    /\ UNCHANGED << ipVars, sdVars, mainVars, clock, runVars, threadVars, evtVars,
                    werror, data, readings, scanResolves, catchVars, bleVars >>

\* A pending stopScanningAsync settles: resolve(peripheral), of which the
\* first resumes performReading; or the listener's promise rejects with
\* nothing to catch it and the thread dies.             worker.js:53-54
W_StopScanDone(ok) ==
    /\ Running /\ stopsPending > 0
    /\ stopsPending' = stopsPending - 1
    /\ IF ok
       THEN /\ scanResolves' = scanResolves + 1
            /\ wpc' = IF wpc = "stopScan" THEN "connect" ELSE wpc
            /\ UNCHANGED << worker, errEvt, exitEvt >>
       ELSE /\ wpc' = "dead" /\ worker' = "exited" /\ errEvt' = TRUE /\ exitEvt' = 1
            /\ UNCHANGED scanResolves
    /\ UNCHANGED << ipVars, sdVars, mainVars, clock, runVars, msg, sent, evtVars,
                    werror, data, readings, isConnected, lateDiscover,
                    catchVars, bleVars >>

\* await peripheral.connectAsync()                       worker.js:71
W_Connect(ok) ==
    /\ Running /\ wpc = "connect"
    /\ IF ok
       THEN /\ link' = "connected" /\ linkOwner' = cur
            /\ wpc' = "settle" /\ UNCHANGED werror
       ELSE /\ werror' = "ConnectFailed" /\ wpc' = "cleanup"
            /\ UNCHANGED << link, linkOwner >>
    /\ UNCHANGED << ipVars, sdVars, mainVars, clock, runVars, threadVars, evtVars,
                    data, readings, scanVars, catchVars, adapter >>

\* await new Promise(resolve => setTimeout(resolve, 1000))   worker.js:72
\* (how long the steps of an attempt take is what Advance models)
W_Settle ==
    /\ Running /\ wpc = "settle"
    /\ wpc' = "services"
    /\ UNCHANGED << ipVars, sdVars, mainVars, clock, runVars, threadVars, evtVars,
                    werror, data, readings, scanVars, catchVars, bleVars >>

LookupOutcomes == { "found", "absent", "error" }

\* discoverServicesAsync and services.find(s => s.uuid === 'fce0')  worker.js:74-78
W_Services(r) ==
    /\ Running /\ wpc = "services"
    /\ CASE r = "found"  -> wpc' = "chars" /\ UNCHANGED werror
         [] r = "absent" -> wpc' = "cleanup" /\ werror' = "ServiceNotFound"
         [] OTHER        -> wpc' = "cleanup" /\ werror' = "TransportError"
    /\ UNCHANGED << ipVars, sdVars, mainVars, clock, runVars, threadVars, evtVars,
                    data, readings, scanVars, catchVars, bleVars >>

\* discoverCharacteristicsAsync and characteristics.find(...)   worker.js:80-87
W_Chars(r) ==
    /\ Running /\ wpc = "chars"
    /\ CASE r = "found"  -> wpc' = "read" /\ UNCHANGED werror
         [] r = "absent" -> wpc' = "cleanup" /\ werror' = "CharacteristicNotFound"
         [] OTHER        -> wpc' = "cleanup" /\ werror' = "TransportError"
    /\ UNCHANGED << ipVars, sdVars, mainVars, clock, runVars, threadVars, evtVars,
                    data, readings, scanVars, catchVars, bleVars >>

\* a plausible slip: the reading posted as soon as it is decoded, before the
\* disconnect
W_ReadPostsEarly(err, d) ==
    /\ Running /\ wpc = "read"
    /\ IF err
       THEN /\ werror' = "ReadError" /\ wpc' = "cleanup"
            /\ UNCHANGED << data, readings, msg, sent >>
       ELSE IF Len(d.bytes) = 0
       THEN /\ werror' = "EmptyPayload" /\ wpc' = "cleanup"
            /\ UNCHANGED << data, readings, msg, sent >>
       ELSE LET r == parseCurrentReadings(d, clock)
            IN  /\ data' = d
                /\ IF r.kind = "error"
                   THEN /\ werror' = r.error /\ wpc' = "cleanup"
                        /\ UNCHANGED << readings, msg, sent >>
                   ELSE /\ readings' = r /\ wpc' = "disconnect"
                        /\ msg' = SuccessMsg(r) /\ sent' = sent + 1
                        /\ UNCHANGED werror
    /\ UNCHANGED << ipVars, sdVars, mainVars, clock, runVars, worker, errEvt,
                    exitEvt, evtVars, scanVars, catchVars, bleVars >>

\* currentReadingsChar.read callback, then parseCurrentReadings(data)
\*                                                        worker.js:89-100
W_Read(err, d) ==
    /\ Running /\ wpc = "read"
    /\ IF err
       THEN /\ werror' = "ReadError" /\ wpc' = "cleanup"
            /\ UNCHANGED << data, readings >>
       ELSE IF Len(d.bytes) = 0
       THEN /\ werror' = "EmptyPayload" /\ wpc' = "cleanup"
            /\ UNCHANGED << data, readings >>
       ELSE LET r == parseCurrentReadings(d, clock)
            IN  /\ data' = d
                /\ IF r.kind = "error"
                   THEN /\ werror' = r.error /\ wpc' = "cleanup"
                        /\ UNCHANGED readings
                   ELSE /\ readings' = r /\ wpc' = "disconnect"
                        /\ UNCHANGED werror
    /\ UNCHANGED << ipVars, sdVars, mainVars, clock, runVars, threadVars, evtVars, scanVars,
                    catchVars, bleVars >>

\* a plausible slip: the result returned whether or not the disconnect worked
W_DisconnectUnchecked(ok) ==
    /\ Running /\ wpc = "disconnect"
    /\ link' = IF ok THEN "disconnected" ELSE link
    /\ linkOwner' = IF ok THEN 0 ELSE linkOwner
    /\ PostMessage(SuccessMsg(readings))
    /\ UNCHANGED << ipVars, sdVars, mainVars, clock, runVars, worker, errEvt, exitEvt, evtVars,
                    werror, data, readings, scanVars, catchVars, adapter >>

\* await peripheral.disconnectAsync(); return {readings, ...}; the caller
\* posts the success message.                      worker.js:103-114, 126-131
W_Disconnect(ok) ==
    /\ Running /\ wpc = "disconnect"
    /\ IF ok
       THEN /\ link' = "disconnected" /\ linkOwner' = 0
            /\ PostMessage(SuccessMsg(readings))
            /\ UNCHANGED werror
       ELSE /\ werror' = "DisconnectFailed" /\ wpc' = "cleanup"
            /\ UNCHANGED << link, linkOwner, msg, sent >>
    /\ UNCHANGED << ipVars, sdVars, mainVars, clock, runVars, worker, errEvt, exitEvt, evtVars,
                    data, readings, scanVars, catchVars, adapter >>

\* a plausible slip: the catch block rethrows without its disconnect
W_CleanupNoDisconnect(ok) ==
    /\ Running /\ wpc = "cleanup"
    /\ catchState' = IF PeripheralConnected THEN "connected" ELSE "disconnected"
    /\ cleanupDisc' = "none"
    /\ PostMessage(FailureMsg(werror))
    /\ UNCHANGED << ipVars, sdVars, mainVars, clock, runVars, worker, errEvt, exitEvt, evtVars,
                    werror, data, readings, scanVars, bleVars >>

\* catch (error) { if (peripheral.state === 'connected') await
\* peripheral.disconnectAsync(); throw error; }: an error of the disconnect
\* leaves the catch block in place of error.  The caller posts the failure
\* message with the error it receives.            worker.js:115-120, 132-134
W_Cleanup(ok) ==
    /\ Running /\ wpc = "cleanup"
    /\ IF PeripheralConnected
       THEN /\ catchState' = "connected"
            /\ IF ok
               THEN /\ cleanupDisc' = "ok"
                    /\ link' = "disconnected" /\ linkOwner' = 0
                    /\ PostMessage(FailureMsg(werror))
               ELSE /\ cleanupDisc' = "failed"
                    /\ PostMessage(FailureMsg("DisconnectFailed"))
                    /\ UNCHANGED << link, linkOwner >>
       ELSE /\ catchState' = "disconnected"
            /\ cleanupDisc' = "none"
            /\ PostMessage(FailureMsg(werror))
            /\ UNCHANGED << link, linkOwner >>
    /\ UNCHANGED << ipVars, sdVars, mainVars, clock, runVars, worker, errEvt, exitEvt, evtVars,
                    werror, data, readings, scanVars, adapter >>

\* an exception nothing catches inside the worker: 'error', then 'exit' 1
WorkerCrash ==
    /\ Running /\ wpc # "dead"
    /\ wpc' = "dead" /\ worker' = "exited" /\ errEvt' = TRUE /\ exitEvt' = 1
    /\ UNCHANGED << ipVars, sdVars, mainVars, clock, runVars, msg, sent, evtVars,
                    werror, data, readings, scanVars, catchVars, bleVars >>

\* the thread ends: by itself with either code, or with code 1 once
\* terminate() was called on it
WorkerExit(code) ==
    /\ Alive /\ worker \in {"running", "terminating"}
    /\ worker = "terminating" => code = 1
    /\ wpc' = "dead" /\ worker' = "exited" /\ exitEvt' = code
    /\ UNCHANGED << ipVars, sdVars, mainVars, clock, runVars, msg, sent, errEvt, evtVars,
                    werror, data, readings, scanVars, catchVars, bleVars >>

\* The BLE world: the adapter is switched on or off, an open link is lost.
AdapterChange ==
    /\ Alive
    /\ adapter' = IF adapter = "poweredOn" THEN "poweredOff" ELSE "poweredOn"
    /\ UNCHANGED << ipVars, sdVars, mainVars, clock, runVars, threadVars, evtVars, wVars,
                    link, linkOwner >>

LinkDrop ==
    /\ Alive /\ link = "connected"
    /\ link' = "disconnected" /\ linkOwner' = 0
    /\ UNCHANGED << ipVars, sdVars, mainVars, clock, runVars, threadVars, evtVars, wVars, adapter >>


----------------------------------------------------------------------------
(* main: src/index.js:372-403.                                             *)

\* a plausible slip: runWorker() called without await
MainTickNoAwait ==
    /\ mainPc = "tick" /\ cur < MaxAttempts
    /\ now' = clock
    /\ IF clock - lastRunTime >= POLLING_INTERVAL
       THEN /\ RunWorkerLaunch
            /\ cur' = cur + 1
            /\ prevOutcome' = promise
            /\ prevSettleTime' = settleTime
            /\ emails' = 0
            /\ emailResult' = "none"
            /\ caught' = "none"
            /\ mainPc' = "sleep"
       ELSE /\ mainPc' = "sleep"
            /\ UNCHANGED << cur, prevOutcome, prevSettleTime, emails, caught,
                            emailResult, runVars, threadVars, evtVars, wVars >>
    /\ UNCHANGED << ipVars, sdVars, clock, lastRunTime, bleVars >>

\* One pass of the loop up to its first suspension: const now = Date.now();
\* if (now - lastRunTime >= POLLING_INTERVAL) await runWorker().
\*                                                        index.js:380-386
MainTick ==
    /\ mainPc = "tick" /\ cur < MaxAttempts
    /\ now' = clock
    /\ IF clock - lastRunTime >= POLLING_INTERVAL
       THEN /\ RunWorkerLaunch
            /\ cur' = cur + 1
            /\ prevOutcome' = promise
            /\ prevSettleTime' = settleTime
            /\ emails' = 0
            /\ emailResult' = "none"
            /\ caught' = "none"
            /\ mainPc' = "await"
       ELSE /\ mainPc' = "sleep"
            /\ UNCHANGED << cur, prevOutcome, prevSettleTime, emails, caught,
                            emailResult, runVars, threadVars, evtVars, wVars >>
    /\ UNCHANGED << ipVars, sdVars, clock, lastRunTime, bleVars >>

\* a plausible slip: lastRunTime = now placed after the try block
MainResumeMarksAlways ==
    /\ mainPc = "await" /\ promise \in {"success", "failure", "timeout"}
    /\ lastRunTime' = now
    /\ IF promise = "success"
       THEN /\ mainPc' = "sleep"
            /\ UNCHANGED << caught, emails >>
       ELSE /\ caught' = rejectedWith
            /\ emails' = emails + 1
            /\ mainPc' = "email"
    /\ UNCHANGED << ipVars, sdVars, clock, now, cur, emailResult, prevOutcome, prevSettleTime,
                    runVars, threadVars, evtVars, wVars, bleVars >>

\* The await returns or throws: lastRunTime = now on 'success'; the catch
\* block calls sendErrorEmail(error).                     index.js:386-397
MainResume ==
    /\ mainPc = "await" /\ promise \in {"success", "failure", "timeout"}
    /\ IF promise = "success"
       THEN /\ lastRunTime' = now
            /\ mainPc' = "sleep"
            /\ UNCHANGED << caught, emails >>
       ELSE /\ caught' = rejectedWith
            /\ emails' = emails + 1
            /\ mainPc' = "email"
            /\ UNCHANGED lastRunTime
    /\ UNCHANGED << ipVars, sdVars, clock, now, cur, emailResult, prevOutcome, prevSettleTime,
                    runVars, threadVars, evtVars, wVars, bleVars >>

\* a plausible slip: a failed send is tried again
EmailDoneRetries(r) ==
    /\ mainPc = "email"
    /\ emailResult' = sendErrorEmail(r)
    /\ IF sendErrorEmail(r) = "sent" \/ emails >= 3
       THEN mainPc' = "sleep" /\ UNCHANGED emails
       ELSE mainPc' = "email" /\ emails' = emails + 1
    /\ UNCHANGED << ipVars, sdVars, clock, now, lastRunTime, cur, caught, prevOutcome,
                    prevSettleTime, runVars, threadVars, evtVars, wVars, bleVars >>

\* await sendErrorEmail(error) returns; an exception leaving it would leave
\* main(), whose .catch runs cleanup() and process.exit(0).
\*                                                        index.js:396, 429-432
EmailDone(r) ==
    /\ mainPc = "email"
    /\ emailResult' = sendErrorEmail(r)
    /\ mainPc' = IF sendErrorEmail(r) = "threw" THEN "exited" ELSE "sleep"
    /\ UNCHANGED << ipVars, sdVars, clock, now, lastRunTime, cur, caught, emails, prevOutcome,
                    prevSettleTime, runVars, threadVars, evtVars, wVars, bleVars >>

\* await new Promise(resolve => setTimeout(resolve, POLLING_INTERVAL + 5000))
\* A thread that was told to terminate, or that ended, is gone and its exit
\* event handled long before this sleep is over.          index.js:401
MainWake ==
    /\ mainPc = "sleep"
    /\ worker \in {"none", "reaped"}
    /\ clock' = clock + POLLING_INTERVAL + TICK_BUFFER
    /\ mainPc' = "tick"
    /\ UNCHANGED << ipVars, sdVars, now, lastRunTime, cur, caught, emails, emailResult,
                    prevOutcome, prevSettleTime, runVars, threadVars, evtVars, wVars, bleVars >>

\* Time passes during an attempt, up to its deadline.
Advance ==
    /\ mainPc = "await"
    /\ clock + Quantum <= startTime + WORKER_TIMEOUT
    /\ clock' = clock + Quantum
    /\ UNCHANGED << ipVars, sdVars, mainVars, runVars, threadVars, evtVars, wVars, bleVars >>

----------------------------------------------------------------------------
Init ==
    /\ mainPc = "tick"
    /\ clock = StartTime
    /\ now = 0
    /\ lastRunTime = 0
    /\ cur = 0
    /\ inflight = 0
    /\ caught = "none"
    /\ emails = 0
    /\ emailResult = "none"
    /\ prevOutcome = "none"
    /\ prevSettleTime = -1
    /\ isTerminated = FALSE
    /\ timer = "none"
    /\ promise = "none"
    /\ rejectedWith = "none"
    /\ settleCalls = 0
    /\ posting = FALSE
    /\ posts = 0
    /\ postResult = "none"
    /\ dropped = "none"
    /\ startTime = 0
    /\ settleTime = -1
    /\ worker = "none"
    /\ msg = NoMsg
    /\ sent = 0
    /\ errEvt = FALSE
    /\ exitEvt = -1
    /\ handled = {}
    /\ seen = {}
    /\ wpc = "none"
    /\ werror = "none"
    /\ data = NoData
    /\ readings = NoReading
    /\ isConnected = FALSE
    /\ scanResolves = 0
    /\ stopsPending = 0
    /\ lateDiscover = FALSE
    /\ catchState = "none"
    /\ cleanupDisc = "none"
    /\ adapter \in {"poweredOn", "poweredOff"}
    /\ link = "disconnected"
    /\ linkOwner = 0
    /\ sdVariant = "worker"
    /\ device = "null"
    /\ scanning = FALSE
    /\ signals = 0
    /\ sigPhase = "none"
    /\ sdPc = [i \in 1..MaxSignals |-> "none"]
    /\ stopTried = FALSE
    /\ discTried = FALSE
    /\ proc = "up"
    /\ lsState = 0
    /\ lsDiscover = 0
    /\ lsSecurity = 0
    /\ hWait = 0
    /\ offStart = FALSE
    /\ unrecovered = FALSE
    /\ scanPromise = "none"
    /\ linux = TRUE
    /\ pairing = "none"
    /\ challengeAt = "none"
    /\ prompts = 0
    /\ adverts = 0
    /\ dpc = [k \in 1..MaxAdverts |-> "none"]

Next ==
    \/ MainTick
    \/ MainResume
    \/ \E r \in MailOutcomes : EmailDone(r)
    \/ MainWake
    \/ Advance
    \/ TimerFire
    \/ OnMessage
    \/ \E resp \in HttpOutcomes : PostDone(resp)
    \/ OnError
    \/ OnExit
    \/ \E ok \in BOOLEAN : W_StartScanning(ok)
    \/ \E ok \in BOOLEAN : W_StateChange(ok)
    \/ W_Discover
    \/ \E ok \in BOOLEAN : W_StopScanDone(ok)
    \/ \E ok \in BOOLEAN : W_Connect(ok)
    \/ W_Settle
    \/ \E r \in LookupOutcomes : W_Services(r)
    \/ \E r \in LookupOutcomes : W_Chars(r)
    \/ \E err \in BOOLEAN, d \in ReadPayloads : W_Read(err, d)
    \/ \E ok \in BOOLEAN : W_Disconnect(ok)
    \/ \E ok \in BOOLEAN : W_Cleanup(ok)
    \/ WorkerCrash
    \/ \E code \in {0, 1} : WorkerExit(code)
    \/ AdapterChange
    \/ LinkDrop

Spec == Init /\ [][Next]_vars

\* The scheduling of the code: the event loop runs every callback that is
\* due (the deadline timer, the handlers of the worker's events, the
\* continuations of main), and a thread told to terminate ends.  Nothing
\* is assumed of the calls an attempt is suspended in (the BLE calls of the
\* worker, the HTTP post, the mail send): each may never complete.
Fairness ==
    /\ WF_vars(MainTick)
    /\ WF_vars(MainResume)
    /\ WF_vars(MainWake)
    /\ WF_vars(TimerFire)
    /\ WF_vars(OnMessage)
    /\ WF_vars(OnError)
    /\ WF_vars(OnExit)
    /\ WF_vars(worker = "terminating" /\ WorkerExit(1))

FairSpec == Init /\ [][Next]_vars /\ Fairness

----------------------------------------------------------------------------
(* The decoder alone: parseCurrentReadings applied to every input of       *)
(* DecodeInputs.                                                           *)

DecodeInit ==
    /\ mainPc = "tick"
    /\ clock = StartTime
    /\ now = 0
    /\ lastRunTime = 0
    /\ cur = 0
    /\ inflight = 0
    /\ caught = "none"
    /\ emails = 0
    /\ emailResult = "none"
    /\ prevOutcome = "none"
    /\ prevSettleTime = -1
    /\ isTerminated = FALSE
    /\ timer = "none"
    /\ promise = "none"
    /\ rejectedWith = "none"
    /\ settleCalls = 0
    /\ posting = FALSE
    /\ posts = 0
    /\ postResult = "none"
    /\ dropped = "none"
    /\ startTime = 0
    /\ settleTime = -1
    /\ worker = "none"
    /\ msg = NoMsg
    /\ sent = 0
    /\ errEvt = FALSE
    /\ exitEvt = -1
    /\ handled = {}
    /\ seen = {}
    /\ wpc = "parse"
    /\ werror = "none"
    /\ data \in DecodeInputs
    /\ readings = NoReading
    /\ isConnected = FALSE
    /\ scanResolves = 0
    /\ stopsPending = 0
    /\ lateDiscover = FALSE
    /\ catchState = "none"
    /\ cleanupDisc = "none"
    /\ adapter = "poweredOn"
    /\ link = "disconnected"
    /\ linkOwner = 0
    /\ sdVariant = "worker"
    /\ device = "null"
    /\ scanning = FALSE
    /\ signals = 0
    /\ sigPhase = "none"
    /\ sdPc = [i \in 1..MaxSignals |-> "none"]
    /\ stopTried = FALSE
    /\ discTried = FALSE
    /\ proc = "up"
    /\ lsState = 0
    /\ lsDiscover = 0
    /\ lsSecurity = 0
    /\ hWait = 0
    /\ offStart = FALSE
    /\ unrecovered = FALSE
    /\ scanPromise = "none"
    /\ linux = TRUE
    /\ pairing = "none"
    /\ challengeAt = "none"
    /\ prompts = 0
    /\ adverts = 0
    /\ dpc = [k \in 1..MaxAdverts |-> "none"]

\* const readings = parseCurrentReadings(data)
Decode ==
    /\ wpc = "parse"
    /\ wpc' = "parsed"
    /\ readings' = parseCurrentReadings(data, clock)
    /\ UNCHANGED << ipVars, sdVars, mainVars, clock, runVars, threadVars, evtVars,
                    werror, data, scanVars, catchVars, bleVars >>

SpecDecode == DecodeInit /\ [][Decode]_vars


----------------------------------------------------------------------------
(* Signals and cleanup().  index.js holds three generations of the         *)
(* program, each with its own cleanup registered for SIGINT and SIGTERM:   *)
(*   "worker"  the worker-based loop        index.js:406-423               *)
(*   "event"   the event-driven reader      index.js:624-646               *)
(*   "inproc"  the in-process polling loop  index.js:927-946               *)
(* The program is seen from the main thread: whether the adapter scans,    *)
(* whether the peripheral is connected, and what aranet4Device holds.  In  *)
(* the worker-based loop scanning and connecting happen in the worker      *)
(* thread, and nothing in the main thread assigns aranet4Device.           *)

Variants == { "worker", "event", "inproc" }

\* the program starts a scan (startScanningAsync)
P_StartScan ==
    /\ proc = "up" /\ signals = 0
    /\ ~scanning /\ link = "disconnected"
    /\ scanning' = TRUE
    /\ UNCHANGED << ipVars, mainVars, clock, runVars, threadVars, evtVars, wVars,
                    bleVars, sdVariant, device, signals, sigPhase, sdPc,
                    stopTried, discTried, proc >>

\* the sensor is discovered: aranet4Device = peripheral (in the main thread
\* of "event" and "inproc"), the scan is stopped, the peripheral connected
\*                          index.js:610-614, 877-884; worker.js:46-54, 71
P_Discover ==
    /\ proc = "up" /\ signals = 0
    /\ scanning
    /\ device' = IF sdVariant = "worker" THEN device ELSE "set"
    /\ scanning' = FALSE
    /\ link' = "connected"
    /\ UNCHANGED << ipVars, mainVars, clock, runVars, threadVars, evtVars, wVars,
                    adapter, linkOwner, sdVariant, signals, sigPhase, sdPc,
                    stopTried, discTried, proc >>

\* the session ends: the peripheral is disconnected
P_SessionEnd ==
    /\ proc = "up" /\ signals = 0
    /\ link = "connected"
    /\ link' = "disconnected"
    /\ UNCHANGED << ipVars, mainVars, clock, runVars, threadVars, evtVars, wVars,
                    adapter, linkOwner, sdVars >>

Phase ==
    IF link = "connected" THEN "connected"
    ELSE IF scanning THEN "scanning" ELSE "idle"

\* the condition under which cleanup enters its try block
CleanupGuard ==
    IF sdVariant = "event"
    THEN device = "set"                                   \* index.js:626
    ELSE device = "set" /\ link = "connected"             \* index.js:409, 929

\* rl.close() and what follows: process.exit(0), or in "event" the timer
\* setTimeout(() => process.exit(0), 1000)       index.js:418, 638, 939
Finish(i) ==
    IF sdVariant = "event"
    THEN sdPc' = [sdPc EXCEPT ![i] = "forceWait"] /\ UNCHANGED proc
    ELSE sdPc' = [sdPc EXCEPT ![i] = "done"] /\ proc' = "exited"

\* SIGINT or SIGTERM: cleanup() runs up to its first await
S_Signal ==
    /\ proc = "up" /\ signals < MaxSignals
    /\ signals' = signals + 1
    /\ sigPhase' = IF signals = 0 THEN Phase ELSE sigPhase
    /\ IF CleanupGuard
       THEN /\ stopTried' = TRUE                 \* await noble.stopScanningAsync()
            /\ sdPc' = [sdPc EXCEPT ![signals + 1] = "stopScan"]
            /\ UNCHANGED proc
       ELSE /\ Finish(signals + 1)
            /\ UNCHANGED stopTried
    /\ UNCHANGED << ipVars, mainVars, clock, runVars, threadVars, evtVars, wVars,
                    bleVars, sdVariant, device, scanning, discTried >>

\* stopScanningAsync settles; an error goes to the catch block, which logs it
S_StopScanDone(i, ok) ==
    /\ proc = "up" /\ sdPc[i] = "stopScan"
    /\ scanning' = IF ok THEN FALSE ELSE scanning
    /\ IF ok /\ (sdVariant # "event" \/ link = "connected")
       THEN /\ discTried' = TRUE                 \* await aranet4Device.disconnectAsync()
            /\ sdPc' = [sdPc EXCEPT ![i] = "disconnect"]
            /\ UNCHANGED proc
       ELSE /\ Finish(i)
            /\ UNCHANGED discTried
    /\ UNCHANGED << ipVars, mainVars, clock, runVars, threadVars, evtVars, wVars,
                    bleVars, sdVariant, device, signals, sigPhase, stopTried >>

\* disconnectAsync settles; an error goes to the catch block, which logs it
S_DisconnectDone(i, ok) ==
    /\ proc = "up" /\ sdPc[i] = "disconnect"
    /\ link' = IF ok THEN "disconnected" ELSE link
    /\ Finish(i)
    /\ UNCHANGED << ipVars, mainVars, clock, runVars, threadVars, evtVars, wVars,
                    adapter, linkOwner, sdVariant, device, scanning, signals,
                    sigPhase, stopTried, discTried >>

\* the timer of "event" fires: process.exit(0)           index.js:638
S_ForcedExit(i) ==
    /\ proc = "up" /\ sdPc[i] = "forceWait"
    /\ sdPc' = [sdPc EXCEPT ![i] = "done"]
    /\ proc' = "exited"
    /\ UNCHANGED << ipVars, mainVars, clock, runVars, threadVars, evtVars, wVars,
                    bleVars, sdVariant, device, scanning, signals, sigPhase,
                    stopTried, discTried >>

\* the peripheral drops the connection while cleanup runs
S_LinkDrop ==
    /\ proc = "up" /\ signals > 0 /\ link = "connected"
    /\ link' = "disconnected"
    /\ UNCHANGED << ipVars, mainVars, clock, runVars, threadVars, evtVars, wVars,
                    adapter, linkOwner, sdVars >>

ShutdownInit ==
    /\ mainPc = "tick"
    /\ clock = StartTime
    /\ now = 0
    /\ lastRunTime = 0
    /\ cur = 0
    /\ inflight = 0
    /\ caught = "none"
    /\ emails = 0
    /\ emailResult = "none"
    /\ prevOutcome = "none"
    /\ prevSettleTime = -1
    /\ isTerminated = FALSE
    /\ timer = "none"
    /\ promise = "none"
    /\ rejectedWith = "none"
    /\ settleCalls = 0
    /\ posting = FALSE
    /\ posts = 0
    /\ postResult = "none"
    /\ dropped = "none"
    /\ startTime = 0
    /\ settleTime = -1
    /\ worker = "none"
    /\ msg = NoMsg
    /\ sent = 0
    /\ errEvt = FALSE
    /\ exitEvt = -1
    /\ handled = {}
    /\ seen = {}
    /\ wpc = "none"
    /\ werror = "none"
    /\ data = NoData
    /\ readings = NoReading
    /\ isConnected = FALSE
    /\ scanResolves = 0
    /\ stopsPending = 0
    /\ lateDiscover = FALSE
    /\ catchState = "none"
    /\ cleanupDisc = "none"
    /\ adapter = "poweredOn"
    /\ link = "disconnected"
    /\ linkOwner = 0
    /\ sdVariant \in Variants
    /\ device = "null"
    /\ scanning = FALSE
    /\ signals = 0
    /\ sigPhase = "none"
    /\ sdPc = [i \in 1..MaxSignals |-> "none"]
    /\ stopTried = FALSE
    /\ discTried = FALSE
    /\ proc = "up"
    /\ lsState = 0
    /\ lsDiscover = 0
    /\ lsSecurity = 0
    /\ hWait = 0
    /\ offStart = FALSE
    /\ unrecovered = FALSE
    /\ scanPromise = "none"
    /\ linux = TRUE
    /\ pairing = "none"
    /\ challengeAt = "none"
    /\ prompts = 0
    /\ adverts = 0
    /\ dpc = [k \in 1..MaxAdverts |-> "none"]

ShutdownNext ==
    \/ P_StartScan
    \/ P_Discover
    \/ P_SessionEnd
    \/ S_Signal
    \/ \E i \in 1..MaxSignals, ok \in BOOLEAN : S_StopScanDone(i, ok)
    \/ \E i \in 1..MaxSignals, ok \in BOOLEAN : S_DisconnectDone(i, ok)
    \/ \E i \in 1..MaxSignals : S_ForcedExit(i)
    \/ S_LinkDrop

SpecShutdown == ShutdownInit /\ [][ShutdownNext]_vars

\* The timer of the forced exit fires when it is due; nothing is assumed of
\* stopScanningAsync and disconnectAsync, which may never settle.
FairShutdown ==
    SpecShutdown /\ \A i \in 1..MaxSignals : WF_vars(S_ForcedExit(i))

----------------------------------------------------------------------------
(* The in-process polling loop: main (index.js:901-924) awaits             *)
(* startScanning (index.js:832-898, the same text as 227-293) and then     *)
(* connectAndRead (index.js:755-830, the same text as 150-225), all in     *)
(* the main thread.  One pass of the loop is a cycle.                      *)

MaxCycles == 2
\* most retries that wait for their 2 s at the same time
MaxRetries == 1

\* what the in-process loop never touches
ipIdle == << clock, now, lastRunTime, inflight, caught, emails, emailResult,
             prevSettleTime, isTerminated, timer, rejectedWith, settleCalls,
             posting, dropped, startTime, settleTime, threadVars, evtVars,
             linkOwner, sdVariant, signals, sigPhase, sdPc, stopTried,
             discTried, proc, linux, adverts, dpc >>
loopVars == << mainPc, cur, prevOutcome, promise >>
sessVars == << wpc, werror, data, readings, catchVars, posts, postResult >>

StartOutcomes == { "ok", "fail" }

\* handleStateChange('poweredOn') with the flag unset: await
\* noble.startScanningAsync([], false); a failure is logged and, on linux,
\* followed by the adapter reset and a wait of 2 s.     index.js:845-868
StartCall(r) ==
    [ scanning    |-> (scanning \/ r = "ok"),
      hWait       |-> (IF r = "fail" /\ linux THEN hWait + 1 ELSE hWait),
      unrecovered |-> (unrecovered \/ (r = "fail" /\ ~linux)) ]

\* the model follows a failing call only while fewer than MaxRetries
\* retries are waiting
CanStart(r) == (r = "fail" /\ linux) => hWait < MaxRetries

NoStartCall ==
    [ scanning |-> scanning, hWait |-> hWait, unrecovered |-> unrecovered ]

\* Top of the loop: startScanning() registers its three listeners and makes
\* its initial state check.                     index.js:904-907, 832-898
I_Tick(r) ==
    /\ mainPc = "tick" /\ cur < MaxCycles
    /\ CanStart(r)
    /\ cur' = cur + 1
    /\ prevOutcome' = promise
    /\ promise' = "pending"
    /\ mainPc' = "scan"
    /\ wpc' = "none" /\ werror' = "none" /\ data' = NoData
    /\ readings' = NoReading /\ catchState' = "none" /\ cleanupDisc' = "none"
    /\ posts' = 0 /\ postResult' = "none"
    /\ pairing' = "none" /\ challengeAt' = "none" /\ prompts' = 0
    /\ isConnected' = FALSE /\ scanResolves' = 0
    /\ stopsPending' = 0 /\ lateDiscover' = FALSE
    /\ scanPromise' = "pending"
    /\ lsSecurity' = lsSecurity + 1
    /\ lsState' = lsState + 1
    /\ lsDiscover' = lsDiscover + 1
    /\ LET e == IF adapter = "poweredOn" THEN StartCall(r) ELSE NoStartCall
       IN  /\ scanning' = e.scanning
           /\ hWait' = e.hWait
    /\ unrecovered' = (adapter = "poweredOn" /\ r = "fail" /\ ~linux)
    /\ UNCHANGED << ipIdle, adapter, link, device, offStart >>

\* noble changes state and emits 'stateChange'; a registered
\* handleStateChange runs when the new state is 'poweredOn' and the flag is
\* unset.  An adapter that is switched off no longer scans.  index.js:845-847
I_AdapterChange(r) ==
    /\ mainPc # "exited"
    /\ CanStart(r)
    /\ adapter' = IF adapter = "poweredOn" THEN "poweredOff" ELSE "poweredOn"
    /\ LET e == IF adapter = "poweredOff" /\ lsState > 0 /\ ~isConnected
                THEN StartCall(r)
                ELSE NoStartCall
       IN  /\ scanning' = (IF adapter = "poweredOn" THEN FALSE ELSE e.scanning)
           /\ hWait' = e.hWait
           /\ unrecovered' = e.unrecovered
    /\ UNCHANGED << ipIdle, loopVars, sessVars, scanVars, lsVars, pinVars,
                    link, device, offStart, scanPromise >>

\* The 2 s after the reset are over: await noble.startScanningAsync([], false)
\* once more, whatever the adapter state and the flag are by now; a failure
\* is logged.                                           index.js:860-864
I_RetryDone(r) ==
    /\ mainPc # "exited" /\ hWait > 0
    /\ hWait' = hWait - 1
    /\ offStart' = (offStart \/ adapter # "poweredOn")
    /\ IF r = "ok" /\ adapter = "poweredOn"
       THEN scanning' = TRUE /\ UNCHANGED unrecovered
       ELSE unrecovered' = TRUE /\ UNCHANGED scanning
    /\ UNCHANGED << ipIdle, loopVars, sessVars, scanVars, lsVars, pinVars,
                    adapter, link, device, scanPromise >>

\* handleDiscover with a matching advertisement.        index.js:870-887
I_Discover ==
    /\ mainPc = "scan" /\ scanning /\ link = "disconnected"
    /\ IF ~isConnected
       THEN /\ device' = "set"
            /\ isConnected' = TRUE
            /\ lsState' = lsState - 1
            /\ lsDiscover' = lsDiscover - 1
            /\ stopsPending' = stopsPending + 1
            /\ UNCHANGED lateDiscover
       ELSE /\ lateDiscover' = TRUE
            /\ UNCHANGED << device, isConnected, lsState, lsDiscover, stopsPending >>
    /\ UNCHANGED << ipIdle, loopVars, sessVars, pinVars, adapter, link,
                    scanning, scanResolves, lsSecurity, hWait, offStart,
                    unrecovered, scanPromise >>

\* stopScanningAsync settles: resolve(peripheral) and main goes on to
\* connectAndRead; a rejection leaves the async listener with nothing to
\* catch it, which ends the process.            index.js:884-885, 907-908
I_StopScanDone(ok) ==
    /\ mainPc = "scan" /\ stopsPending > 0
    /\ stopsPending' = stopsPending - 1
    /\ IF ok
       THEN /\ scanning' = FALSE
            /\ scanResolves' = scanResolves + 1
            /\ scanPromise' = "resolved"
            /\ mainPc' = "session"
            /\ wpc' = "connect"
       ELSE /\ mainPc' = "exited"
            /\ UNCHANGED << scanning, scanResolves, scanPromise, wpc >>
    /\ UNCHANGED << ipIdle, cur, prevOutcome, promise, werror, data, readings,
                    catchVars, posts, postResult, isConnected, lateDiscover,
                    lsVars, pinVars, adapter, link, device, hWait, offStart,
                    unrecovered >>

\* what the steps of connectAndRead leave alone
scanIdle == << scanVars, scanning, device, lsVars, hWait, offStart,
               unrecovered, scanPromise >>

InSession == mainPc = "session"

\* throw error reaches the catch block of main, which waits 30 s
\*                                              index.js:828, 918-921
Throw == promise' = "failure" /\ mainPc' = "sleep" /\ wpc' = "done"

\* await peripheral.connectAsync()                       index.js:764
I_Connect(ok) ==
    /\ InSession /\ wpc = "connect"
    /\ IF ok
       THEN link' = "connected" /\ wpc' = "settle" /\ UNCHANGED werror
       ELSE werror' = "ConnectFailed" /\ wpc' = "cleanup" /\ UNCHANGED link
    /\ UNCHANGED << ipIdle, loopVars, scanIdle, pinVars, adapter, data,
                    readings, catchVars, posts, postResult >>

\* await new Promise(resolve => setTimeout(resolve, 1000)): the wait "for
\* potential pairing request" ends after 1 s whatever has happened
\*                                                        index.js:766-767
I_Settle ==
    /\ InSession /\ wpc = "settle"
    /\ wpc' = "services"
    /\ UNCHANGED << ipIdle, loopVars, scanIdle, pinVars, adapter, link, werror,
                    data, readings, catchVars, posts, postResult >>

\* discoverServicesAsync and services.find(...)           index.js:770-776
I_Services(r) ==
    /\ InSession /\ wpc = "services"
    /\ CASE r = "found"  -> wpc' = "chars" /\ UNCHANGED werror
         [] r = "absent" -> wpc' = "cleanup" /\ werror' = "ServiceNotFound"
         [] OTHER        -> wpc' = "cleanup" /\ werror' = "TransportError"
    /\ UNCHANGED << ipIdle, loopVars, scanIdle, pinVars, adapter, link,
                    data, readings, catchVars, posts, postResult >>

\* discoverCharacteristicsAsync and characteristics.find(...)  index.js:779-788
I_Chars(r) ==
    /\ InSession /\ wpc = "chars"
    /\ CASE r = "found"  -> wpc' = "read" /\ UNCHANGED werror
         [] r = "absent" -> wpc' = "cleanup" /\ werror' = "CharacteristicNotFound"
         [] OTHER        -> wpc' = "cleanup" /\ werror' = "TransportError"
    /\ UNCHANGED << ipIdle, loopVars, scanIdle, pinVars, adapter, link,
                    data, readings, catchVars, posts, postResult >>

\* the single read and parseCurrentReadings(data)         index.js:791-802
I_Read(err, d) ==
    /\ InSession /\ wpc = "read"
    /\ IF err
       THEN /\ werror' = "ReadError" /\ wpc' = "cleanup"
            /\ UNCHANGED << data, readings >>
       ELSE IF Len(d.bytes) = 0
       THEN /\ werror' = "EmptyPayload" /\ wpc' = "cleanup"
            /\ UNCHANGED << data, readings >>
       ELSE LET r == parseCurrentReadings(d, clock)
            IN  /\ data' = d
                /\ IF r.kind = "error"
                   THEN /\ werror' = r.error /\ wpc' = "cleanup"
                        /\ UNCHANGED readings
                   ELSE /\ readings' = r /\ wpc' = "post"
                        /\ UNCHANGED werror
    /\ UNCHANGED << ipIdle, loopVars, scanIdle, pinVars, adapter, link,
                    catchVars, posts, postResult >>

\* await postToServer(readings), inside connectAndRead and before the
\* disconnect                                            index.js:810-811
I_Post(resp) ==
    /\ InSession /\ wpc = "post"
    /\ posts' = posts + 1
    /\ postResult' = postToServer(resp)
    /\ wpc' = "disconnect"
    /\ UNCHANGED << ipIdle, loopVars, scanIdle, pinVars, adapter, link, werror,
                    data, readings, catchVars >>

\* await peripheral.disconnectAsync(); return 'success'; main then waits
\* POLLING_INTERVAL                              index.js:813-817, 910-912
I_Disconnect(ok) ==
    /\ InSession /\ wpc = "disconnect"
    /\ IF ok
       THEN /\ link' = "disconnected"
            /\ promise' = "success" /\ mainPc' = "sleep" /\ wpc' = "done"
            /\ UNCHANGED werror
       ELSE /\ werror' = "DisconnectFailed" /\ wpc' = "cleanup"
            /\ UNCHANGED << link, promise, mainPc >>
    /\ UNCHANGED << ipIdle, cur, prevOutcome, scanIdle, pinVars, adapter,
                    data, readings, catchVars, posts, postResult >>

\* catch (error): the disconnect in a try of its own, then throw error
\*                                                        index.js:818-829
I_Cleanup(ok) ==
    /\ InSession /\ wpc = "cleanup"
    /\ Throw
    /\ IF link = "connected"
       THEN /\ catchState' = "connected"
            /\ cleanupDisc' = IF ok THEN "ok" ELSE "failed"
            /\ link' = IF ok THEN "disconnected" ELSE link
       ELSE /\ catchState' = "disconnected"
            /\ cleanupDisc' = "none"
            /\ UNCHANGED link
    /\ UNCHANGED << ipIdle, cur, prevOutcome, scanIdle, pinVars, adapter,
                    werror, data, readings, posts, postResult >>

\* the peripheral drops the connection
I_LinkDrop ==
    /\ mainPc # "exited" /\ link = "connected"
    /\ link' = "disconnected"
    /\ UNCHANGED << ipIdle, loopVars, sessVars, scanIdle, pinVars, adapter >>

\* the sleep of main is over (30 min after success, 30 s after an error)
\*                                                        index.js:912-921
I_Wake ==
    /\ mainPc = "sleep"
    /\ mainPc' = "tick"
    /\ UNCHANGED << ipIdle, cur, prevOutcome, promise, sessVars, scanIdle,
                    pinVars, adapter, link >>

SecurityTypes == { "legacy", "other" }

\* noble emits 'security' for the connected peripheral: every registered
\* listener runs; for type 'legacy' each calls getPIN(), which opens a
\* prompt.                                               index.js:837-843
I_Security(type) ==
    /\ InSession /\ link = "connected" /\ pairing = "none" /\ lsSecurity > 0
    /\ challengeAt' = wpc
    /\ IF type = "legacy"
       THEN pairing' = "prompting" /\ prompts' = lsSecurity
       ELSE pairing' = "ignored" /\ UNCHANGED prompts
    /\ UNCHANGED << ipIdle, loopVars, sessVars, scanIdle, adapter, link >>

\* the PIN is typed in: peripheral.sendPairingResponse(pin)
\*                                               index.js:840-841, 689-695
I_PinEntered ==
    /\ mainPc # "exited" /\ pairing = "prompting"
    /\ pairing' = "sent"
    /\ UNCHANGED << ipIdle, loopVars, sessVars, scanIdle, adapter, link,
                    challengeAt, prompts >>

InprocInit ==
    /\ mainPc = "tick"
    /\ clock = StartTime
    /\ now = 0
    /\ lastRunTime = 0
    /\ cur = 0
    /\ inflight = 0
    /\ caught = "none"
    /\ emails = 0
    /\ emailResult = "none"
    /\ prevOutcome = "none"
    /\ prevSettleTime = -1
    /\ isTerminated = FALSE
    /\ timer = "none"
    /\ promise = "none"
    /\ rejectedWith = "none"
    /\ settleCalls = 0
    /\ posting = FALSE
    /\ posts = 0
    /\ postResult = "none"
    /\ dropped = "none"
    /\ startTime = 0
    /\ settleTime = -1
    /\ worker = "none"
    /\ msg = NoMsg
    /\ sent = 0
    /\ errEvt = FALSE
    /\ exitEvt = -1
    /\ handled = {}
    /\ seen = {}
    /\ wpc = "none"
    /\ werror = "none"
    /\ data = NoData
    /\ readings = NoReading
    /\ isConnected = FALSE
    /\ scanResolves = 0
    /\ stopsPending = 0
    /\ lateDiscover = FALSE
    /\ catchState = "none"
    /\ cleanupDisc = "none"
    /\ adapter \in {"poweredOn", "poweredOff"}
    /\ link = "disconnected"
    /\ linkOwner = 0
    /\ sdVariant = "inproc"
    /\ device = "null"
    /\ scanning = FALSE
    /\ signals = 0
    /\ sigPhase = "none"
    /\ sdPc = [i \in 1..MaxSignals |-> "none"]
    /\ stopTried = FALSE
    /\ discTried = FALSE
    /\ proc = "up"
    /\ lsState = 0
    /\ lsDiscover = 0
    /\ lsSecurity = 0
    /\ hWait = 0
    /\ offStart = FALSE
    /\ unrecovered = FALSE
    /\ scanPromise = "none"
    /\ linux \in BOOLEAN
    /\ pairing = "none"
    /\ challengeAt = "none"
    /\ prompts = 0
    /\ adverts = 0
    /\ dpc = [k \in 1..MaxAdverts |-> "none"]

InprocNext ==
    \/ \E r \in StartOutcomes : I_Tick(r)
    \/ \E r \in StartOutcomes : I_AdapterChange(r)
    \/ \E r \in StartOutcomes : I_RetryDone(r)
    \/ I_Discover
    \/ \E ok \in BOOLEAN : I_StopScanDone(ok)
    \/ \E ok \in BOOLEAN : I_Connect(ok)
    \/ I_Settle
    \/ \E r \in LookupOutcomes : I_Services(r)
    \/ \E r \in LookupOutcomes : I_Chars(r)
    \/ \E err \in BOOLEAN, d \in ReadPayloads : I_Read(err, d)
    \/ \E resp \in HttpOutcomes : I_Post(resp)
    \/ \E ok \in BOOLEAN : I_Disconnect(ok)
    \/ \E ok \in BOOLEAN : I_Cleanup(ok)
    \/ I_LinkDrop
    \/ I_Wake
    \/ \E type \in SecurityTypes : I_Security(type)
    \/ I_PinEntered

SpecInproc == InprocInit /\ [][InprocNext]_vars

----------------------------------------------------------------------------
(* The event-driven program (index.js:433-652): startScanning only         *)
(* registers listeners; the 'discover' listener stops the scan and runs    *)
(* connectAndRead itself, once for every matching advertisement it is      *)
(* called with.                                                            *)

\* what the event-driven program never touches
evIdle == << clock, now, lastRunTime, cur, inflight, caught, emails,
             emailResult, prevOutcome, prevSettleTime, isTerminated, timer,
             promise, rejectedWith, settleCalls, posting, dropped, startTime,
             settleTime, threadVars, evtVars, wVars, linkOwner, sdVariant,
             signals, sigPhase, sdPc, stopTried, discTried, proc, lsVars,
             hWait, offStart, unrecovered, scanPromise, linux, pinVars >>

Listening == mainPc = "listen"

\* positions of a handler call that is inside connectAndRead
SessionSteps == { "connect", "settle", "services", "chars", "read", "polling" }

SessionsInProgress == { k \in 1..MaxAdverts : dpc[k] \in SessionSteps }

\* noble.on('stateChange', ...): on 'poweredOn' await startScanningAsync,
\* with no try around it, so a rejection ends the process; the listener is
\* never removed and tests no flag.                      index.js:596-601
E_AdapterChange(r) ==
    /\ Listening
    /\ adapter' = IF adapter = "poweredOn" THEN "poweredOff" ELSE "poweredOn"
    /\ IF adapter = "poweredOn"
       THEN scanning' = FALSE /\ UNCHANGED mainPc
       ELSE IF r = "ok"
       THEN scanning' = TRUE /\ UNCHANGED mainPc
       ELSE mainPc' = "exited" /\ UNCHANGED scanning
    /\ UNCHANGED << evIdle, adverts, dpc, device, link, posts, postResult >>

\* noble.on('discover', ...) with a matching name: aranet4Device =
\* peripheral; await noble.stopScanningAsync().  No flag is tested and no
\* listener removed.                                     index.js:603-611
E_Discover ==
    /\ Listening /\ scanning /\ adverts < MaxAdverts
    /\ adverts' = adverts + 1
    /\ device' = "set"
    /\ dpc' = [dpc EXCEPT ![adverts + 1] = "stopping"]
    /\ UNCHANGED << evIdle, adapter, scanning, link, mainPc, posts, postResult >>

\* stopScanningAsync settles; the handler goes on to connectAndRead.  The
\* await is outside the try, a rejection ends the process.
\*                                                       index.js:611-614
E_StopScanDone(k, ok) ==
    /\ Listening /\ dpc[k] = "stopping"
    /\ IF ok
       THEN /\ scanning' = FALSE
            /\ dpc' = [dpc EXCEPT ![k] = "connect"]
            /\ UNCHANGED mainPc
       ELSE /\ mainPc' = "exited"
            /\ UNCHANGED << scanning, dpc >>
    /\ UNCHANGED << evIdle, adapter, adverts, device, link, posts, postResult >>

\* a step of connectAndRead fails: throw error, caught by the handler,
\* which awaits cleanup()                        index.js:579-582, 615-618
E_Fail(k) == dpc' = [dpc EXCEPT ![k] = "cleanup"]

\* await peripheral.connectAsync()                       index.js:512
E_Connect(k, ok) ==
    /\ Listening /\ dpc[k] = "connect"
    /\ IF ok
       THEN link' = "connected" /\ dpc' = [dpc EXCEPT ![k] = "settle"]
       ELSE E_Fail(k) /\ UNCHANGED link
    /\ UNCHANGED << evIdle, adapter, scanning, adverts, device, mainPc, posts,
                    postResult >>

\* the wait of 1 s                                       index.js:514-515
E_Settle(k) ==
    /\ Listening /\ dpc[k] = "settle"
    /\ dpc' = [dpc EXCEPT ![k] = "services"]
    /\ UNCHANGED << evIdle, adapter, scanning, adverts, device, link, mainPc,
                    posts, postResult >>

\* discoverServicesAsync and services.find(...)          index.js:518-524
E_Services(k, r) ==
    /\ Listening /\ dpc[k] = "services"
    /\ IF r = "found" THEN dpc' = [dpc EXCEPT ![k] = "chars"] ELSE E_Fail(k)
    /\ UNCHANGED << evIdle, adapter, scanning, adverts, device, link, mainPc,
                    posts, postResult >>

\* discoverCharacteristicsAsync and characteristics.find(...)
\*                                                       index.js:527-536
E_Chars(k, r) ==
    /\ Listening /\ dpc[k] = "chars"
    /\ IF r = "found" THEN dpc' = [dpc EXCEPT ![k] = "read"] ELSE E_Fail(k)
    /\ UNCHANGED << evIdle, adapter, scanning, adverts, device, link, mainPc,
                    posts, postResult >>

\* await readAndDisplayValues(): read, decode and post inside a try that
\* logs every error; then the interval is set and the session waits for
\* SIGINT with the connection open.                      index.js:539-577
E_Read(k, err, resp) ==
    /\ Listening /\ dpc[k] = "read"
    /\ dpc' = [dpc EXCEPT ![k] = "polling"]
    /\ IF err
       THEN UNCHANGED << posts, postResult >>
       ELSE posts' = posts + 1 /\ postResult' = postToServer(resp)
    /\ UNCHANGED << evIdle, adapter, scanning, adverts, device, link, mainPc >>

\* cleanup() called by the handler: stop the scan, disconnect if connected,
\* and exit 1 s later.                                   index.js:624-639
E_Cleanup(k) ==
    /\ Listening /\ dpc[k] = "cleanup"
    /\ mainPc' = "exited"
    /\ scanning' = FALSE
    /\ link' = "disconnected"
    /\ UNCHANGED << evIdle, adapter, adverts, dpc, device, posts, postResult >>

\* the peripheral drops the connection
E_LinkDrop ==
    /\ Listening /\ link = "connected"
    /\ link' = "disconnected"
    /\ UNCHANGED << evIdle, adapter, scanning, adverts, dpc, device, mainPc,
                    posts, postResult >>

\* startScanning() has registered its three listeners    index.js:586-621
EventInit ==
    /\ mainPc = "listen"
    /\ clock = StartTime
    /\ now = 0
    /\ lastRunTime = 0
    /\ cur = 0
    /\ inflight = 0
    /\ caught = "none"
    /\ emails = 0
    /\ emailResult = "none"
    /\ prevOutcome = "none"
    /\ prevSettleTime = -1
    /\ isTerminated = FALSE
    /\ timer = "none"
    /\ promise = "none"
    /\ rejectedWith = "none"
    /\ settleCalls = 0
    /\ posting = FALSE
    /\ posts = 0
    /\ postResult = "none"
    /\ dropped = "none"
    /\ startTime = 0
    /\ settleTime = -1
    /\ worker = "none"
    /\ msg = NoMsg
    /\ sent = 0
    /\ errEvt = FALSE
    /\ exitEvt = -1
    /\ handled = {}
    /\ seen = {}
    /\ wpc = "none"
    /\ werror = "none"
    /\ data = NoData
    /\ readings = NoReading
    /\ isConnected = FALSE
    /\ scanResolves = 0
    /\ stopsPending = 0
    /\ lateDiscover = FALSE
    /\ catchState = "none"
    /\ cleanupDisc = "none"
    /\ adapter \in {"poweredOn", "poweredOff"}
    /\ link = "disconnected"
    /\ linkOwner = 0
    /\ sdVariant = "event"
    /\ device = "null"
    /\ scanning = FALSE
    /\ signals = 0
    /\ sigPhase = "none"
    /\ sdPc = [i \in 1..MaxSignals |-> "none"]
    /\ stopTried = FALSE
    /\ discTried = FALSE
    /\ proc = "up"
    /\ lsState = 1
    /\ lsDiscover = 1
    /\ lsSecurity = 1
    /\ hWait = 0
    /\ offStart = FALSE
    /\ unrecovered = FALSE
    /\ scanPromise = "none"
    /\ linux = TRUE
    /\ pairing = "none"
    /\ challengeAt = "none"
    /\ prompts = 0
    /\ adverts = 0
    /\ dpc = [k \in 1..MaxAdverts |-> "none"]

EventNext ==
    \/ \E r \in StartOutcomes : E_AdapterChange(r)
    \/ E_Discover
    \/ \E k \in 1..MaxAdverts, ok \in BOOLEAN : E_StopScanDone(k, ok)
    \/ \E k \in 1..MaxAdverts, ok \in BOOLEAN : E_Connect(k, ok)
    \/ \E k \in 1..MaxAdverts : E_Settle(k)
    \/ \E k \in 1..MaxAdverts, r \in LookupOutcomes : E_Services(k, r)
    \/ \E k \in 1..MaxAdverts, r \in LookupOutcomes : E_Chars(k, r)
    \/ \E k \in 1..MaxAdverts, err \in BOOLEAN, resp \in HttpOutcomes :
           E_Read(k, err, resp)
    \/ \E k \in 1..MaxAdverts : E_Cleanup(k)
    \/ E_LinkDrop

SpecEvent == EventInit /\ [][EventNext]_vars

----------------------------------------------------------------------------
(* Properties.                                                             *)

Settled == promise \in {"success", "failure", "timeout"}

\* C1: for one invocation of runWorker, whatever the order of the worker's
\* 'message', 'error' and 'exit' events and of the deadline timer, at most
\* one resolve(...) or reject(...) is ever made.
C1_AtMostOneOutcome == settleCalls <= 1

\* The race happened: the deadline fired first, and the worker's message and
\* its exit were handled afterwards.
C1_Witness ==
    /\ settleCalls = 1
    /\ seen = {"timer", "message", "exitNonZero"}
    /\ handled = {"timer"}

\* Nothing is left that could still act for the invocation: the timer is
\* cleared or has fired, the thread is gone and its exit handled, no event
\* is pending and no handler is suspended.
RunWorkerQuiescent ==
    /\ promise # "none"
    /\ timer # "armed"
    /\ worker = "reaped"
    /\ msg = NoMsg /\ ~errEvt /\ exitEvt = -1
    /\ ~posting

\* C2: every invocation of runWorker delivers exactly one of success,
\* failure or timeout, whatever the order of the events and whatever the
\* exit code: once nothing is left that could act for the invocation, its
\* promise is settled, by exactly one call.
C2_ExactlyOneDelivered ==
    RunWorkerQuiescent => (Settled /\ settleCalls = 1)

\* C3: the deadline callback runs only if no event of the worker was handled
\* before it; it then rejects the promise with the timeout error and tells
\* the worker to terminate, and a message handled after that neither settles
\* the promise again nor posts a reading.
C3_TimeoutFinal ==
    "timer" \in seen =>
        /\ "timer" \in handled
        /\ promise = "timeout" /\ rejectedWith = "Timeout"
        /\ settleCalls = 1
        /\ worker # "running"
        /\ posts = 0 /\ ~posting /\ postResult = "none"

\* The deadline fired and a success message was handled after it.
C3_Witness ==
    /\ "timer" \in handled
    /\ dropped = "success"
    /\ promise = "timeout"

\* C4: at most one runWorker invocation is unsettled at any time.
C4_OneInFlight == inflight <= 1

\* The second invocation is in flight after the first was settled.
C4_Witness ==
    /\ cur = 2 /\ inflight = 1 /\ promise = "pending"
    /\ prevOutcome \in {"success", "failure", "timeout"}

\* The worker of the current attempt is scanning for, or connecting to, the
\* peripheral.
ScanningOrConnecting ==
    worker = "running" /\ wpc \in {"scanning", "stopScan", "connect"}

\* C5: no attempt scans or connects while the connection an earlier attempt
\* opened is still connected.
C5_OneBleSession ==
    ScanningOrConnecting => ~(link = "connected" /\ linkOwner # cur)

\* C6: a worker 'error' event or a non-zero exit handled when no message had
\* been accepted leaves the promise rejected: with the failure if it came
\* before the deadline fired, and otherwise the timeout rejection stands.
C6_AbnormalEndIsFailure ==
    (seen \cap {"error", "exitNonZero"} # {} /\ "message" \notin handled) =>
        /\ promise \in {"failure", "timeout"}
        /\ settleCalls = 1
        /\ promise = "timeout" <=> "timer" \in handled
        /\ "timer" \notin handled =>
               rejectedWith = (IF "error" \in handled THEN "WorkerError" ELSE "ExitCode")

\* A non-zero exit, with no 'error' event and no message before it, was
\* handled and rejected the promise.
C6_Witness ==
    /\ handled = {"exitNonZero"}
    /\ promise = "failure" /\ rejectedWith = "ExitCode"

\* C7: a failed attempt does not end the polling process: the rejection is
\* caught, sendErrorEmail is called with it, and from there the loop goes to
\* its sleep and its next tick; the process never exits.
C7_FailureCaught ==
    /\ [](mainPc # "exited")
    /\ [][ /\ (mainPc = "await" /\ promise \in {"failure", "timeout"}
                 /\ mainPc' # "await")
              => (mainPc' = "email" /\ caught' = rejectedWith)
           /\ (mainPc = "email" /\ mainPc' # "email") => mainPc' = "sleep"
           /\ (mainPc = "sleep" /\ mainPc' # "sleep") => mainPc' = "tick" ]_vars

\* After a failed first attempt and a failed alert the loop made its second
\* attempt.
C7_Witness ==
    /\ cur = 2 /\ mainPc = "await"
    /\ prevOutcome \in {"failure", "timeout"}

\* C8: postToServer and sendErrorEmail return normally whatever the endpoint
\* and the mail service do, so neither call ends the loop.
C8_SinksNeverThrow ==
    /\ postResult # "threw"
    /\ emailResult # "threw"
    /\ (postResult # "none" /\ ~posting) => promise = "success"
    /\ emailResult # "none" => mainPc \in {"sleep", "tick"}

\* The HTTP post failed and the attempt succeeded all the same.
C8_Witness ==
    /\ postResult = "logged_error"
    /\ promise = "success"
    /\ mainPc = "sleep"

Signed16(u) == (u % 32768) - 32768 * (u \div 32768)

\* C10: for a buffer of at least 7 bytes the decoded co2 is the unsigned
\* little-endian 16-bit of bytes 0-1, the temperature the signed
\* little-endian 16-bit of bytes 2-3 over 20, the pressure the unsigned
\* little-endian 16-bit of bytes 4-5 over 10, the humidity byte 6; bytes
\* past the seventh change nothing, and E8 03 F0 00 C8 27 32 gives
\* 1000 ppm, 12.0 C, 1018.4 hPa, 50 %.
C10_DecodeLayout ==
    (wpc = "parsed" /\ data.isBuffer /\ Len(data.bytes) >= 7) =>
        LET b == data.bytes
            r == readings
        IN  /\ r.kind = "reading"
            /\ r.co2 = b[1] + 256 * b[2]
            /\ r.temperature.d > 0
            /\ r.temperature.n * 20 = Signed16(b[3] + 256 * b[4]) * r.temperature.d
            /\ r.pressure.d > 0
            /\ r.pressure.n * 10 = (b[5] + 256 * b[6]) * r.pressure.d
            /\ r.humidity = b[7]
            /\ SubSeq(b, 1, 7) = ExamplePayload =>
                   /\ r.co2 = 1000
                   /\ r.temperature = [n |-> 12, d |-> 1]
                   /\ r.pressure = [n |-> 5092, d |-> 5]
                   /\ r.humidity = 50

\* A buffer longer than 7 bytes with a negative temperature was decoded.
C10_Witness ==
    /\ wpc = "parsed" /\ data.isBuffer /\ Len(data.bytes) = 8
    /\ data.bytes[3] = 240 /\ data.bytes[4] = 255
    /\ readings.kind = "reading"
    /\ readings.temperature = [n |-> -4, d |-> 5]


\* C11: parseCurrentReadings fails with the too-short error for every buffer
\* of length 0 to 6 and with the not-a-buffer error for every input that is
\* no Buffer, whatever its length; in both cases no reading is returned.
C11_DecodeRejects ==
    wpc = "parsed" =>
        /\ ~data.isBuffer =>
               readings = [kind |-> "error", error |-> "NotABuffer"]
        /\ (data.isBuffer /\ Len(data.bytes) < 7) =>
               readings = [kind |-> "error", error |-> "TooShort"]
        /\ (~data.isBuffer \/ Len(data.bytes) < 7) => readings.kind # "reading"

\* A buffer of 6 bytes, one short of a reading, was refused as too short.
C11_Witness ==
    /\ wpc = "parsed" /\ data.isBuffer /\ Len(data.bytes) = 6
    /\ readings = [kind |-> "error", error |-> "TooShort"]
\* C12: one invocation of startScanning calls resolve at most once, whatever
\* advertisements reach handleDiscover, those arriving while
\* stopScanningAsync is still pending included.
C12_ResolveOnce == scanResolves <= 1

\* A second matching advertisement was handled while the stop of the scan
\* was pending, and startScanning has resolved.
C12_Witness ==
    /\ scanResolves = 1 /\ lateDiscover
    /\ stopsPending = 0 /\ wpc = "connect"

\* The errors of the steps of connectAndRead that follow the connection.
SessionStepErrors ==
    { "ServiceNotFound", "CharacteristicNotFound", "ReadError", "EmptyPayload",
      "TooShort", "NotABuffer", "ParseFailed" }

\* C13: once a step of connectAndRead has failed (service or characteristic
\* absent, read error, empty payload, decoding failure) no later step runs,
\* no reading is returned, and the caller receives the error of that step.
C13_FailedStepAborts ==
    werror \in SessionStepErrors =>
        /\ wpc \in {"cleanup", "done", "dead"}
        /\ readings = NoReading
        /\ msg.kind = "msg" => (~msg.success /\ msg.error = werror)

\* connectAndRead has thrown to performReading.
Rethrown == wpc = "done" /\ werror # "none"

\* C14: when connectAndRead fails and the peripheral reports 'connected', the
\* catch block has issued a disconnect by the time the error reaches the
\* caller; when the peripheral does not report 'connected' it issues none.
C14_DisconnectBeforeRethrow ==
    /\ Rethrown => catchState \in {"connected", "disconnected"}
    /\ catchState = "connected" <=> cleanupDisc \in {"ok", "failed"}
    /\ catchState \in {"none", "disconnected"} <=> cleanupDisc = "none"
    /\ cleanupDisc = "ok" => ~PeripheralConnected

\* The service was absent on a connected peripheral: the catch block
\* disconnected it and the error went to the caller.
C14_Witness ==
    /\ Rethrown /\ werror = "ServiceNotFound"
    /\ catchState = "connected" /\ cleanupDisc = "ok"
    /\ link = "disconnected"
    /\ msg = FailureMsg("ServiceNotFound")

\* C15: when the disconnect of the catch block fails, the failure message
\* still carries the error connectAndRead had caught.
C15_CleanupErrorNotMasking ==
    (msg.kind = "msg" /\ ~msg.success /\ cleanupDisc = "failed") =>
        msg.error = werror
\* The attempt is suspended in one of its awaited calls: a BLE call of the
\* worker, the HTTP post of the message handler, the mail send of main.
SuspendedInBle ==
    worker = "running" /\ wpc \in {"connect", "services", "chars", "read"}
SuspendedInPost == posting
SuspendedInEmail == mainPc = "email"

\* C16: whatever call an attempt is suspended in, and even if that call
\* never completes, the attempt ends and the loop reaches its next tick.
C16_SuspensionsBounded ==
    /\ SuspendedInBle ~> (mainPc = "tick")
    /\ SuspendedInPost ~> (mainPc = "tick")
    /\ SuspendedInEmail ~> (mainPc = "tick")
\* C17: when the process has exited through cleanup after a signal that
\* arrived while the program was scanning or connected, cleanup had called
\* stopScanningAsync, and, if the peripheral was connected when the signal
\* arrived, disconnectAsync as well.  (Between attempts there is nothing
\* to stop or to disconnect.)
C17_CleanupAttemptsBoth ==
    (proc = "exited" /\ signals > 0) =>
        /\ sigPhase \in {"scanning", "connected"} => stopTried
        /\ sigPhase = "connected" => discTried

\* C18: after a signal the process exits, even when the stopScanningAsync or
\* disconnectAsync call of cleanup never settles.
C18_ExitsAfterSignal == (signals > 0) ~> (proc = "exited")
\* C19: the loop wakes after a sleep shorter than the polling interval; a
\* tick starts an attempt exactly when now - lastRunTime has reached the
\* interval; the first tick after startup attempts.
C19_ShortTickDueAttempt ==
    /\ (mainPc = "tick" /\ cur >= 1) => clock - now < POLLING_INTERVAL
    /\ mainPc = "await" =>
           (startTime = now /\ now - lastRunTime >= POLLING_INTERVAL)
    /\ (mainPc = "sleep" /\ startTime # now) =>
           now - lastRunTime < POLLING_INTERVAL
    /\ mainPc # "tick" => cur >= 1

\* C20: lastRunTime changes only when main resumes from an attempt that
\* succeeded, and then to the time captured when that attempt started; an
\* attempt that failed or timed out leaves it as it was.
C20_LastRunOnlyOnSuccess ==
    [][ /\ lastRunTime' # lastRunTime =>
               /\ mainPc = "await" /\ promise = "success"
               /\ lastRunTime' = now /\ now = startTime
        /\ (mainPc = "await" /\ promise \in {"failure", "timeout"}) =>
               lastRunTime' = lastRunTime ]_vars

\* The first attempt succeeded and set lastRunTime; the second failed, its
\* alert was sent, and lastRunTime is still the start of the first.
C20_Witness ==
    /\ cur = 2 /\ prevOutcome = "success"
    /\ promise \in {"failure", "timeout"} /\ mainPc = "sleep"
    /\ lastRunTime = StartTime /\ lastRunTime < now
\* C21: when the HTTP post of a reading fails (transport error or a status
\* other than 200), runWorker still resolves 'success', main advances
\* lastRunTime to the start of that attempt, and sendErrorEmail is not called.
C21_PostFailureKeepsSuccess ==
    postResult \in {"logged_error", "logged_status"} =>
        /\ promise = "success" /\ settleCalls = 1
        /\ emails = 0 /\ mainPc # "email"
        /\ mainPc \in {"sleep", "tick"} => lastRunTime = startTime

\* The endpoint answered 204 or 500, and the loop went to sleep with
\* lastRunTime advanced and no alert sent.
C21_Witness ==
    /\ postResult = "logged_status"
    /\ mainPc = "sleep" /\ lastRunTime = startTime /\ emails = 0

\* C22: an attempt that ends in failure or timeout causes exactly one call of
\* sendErrorEmail, one that succeeds none, and a send that fails is not
\* repeated.
C22_OneAlertPerFailure ==
    /\ emails <= 1
    /\ mainPc = "email" => (emails = 1 /\ promise \in {"failure", "timeout"})
    /\ (mainPc \in {"sleep", "tick"} /\ cur >= 1) =>
           emails = (IF promise = "success" THEN 0 ELSE 1)
    /\ emailResult = "logged_error" => (emails = 1 /\ mainPc \in {"sleep", "tick"})

\* The attempt timed out, the one alert failed to send, and the loop slept
\* and woke without a second send.
C22_Witness ==
    /\ promise = "timeout" /\ emailResult = "logged_error"
    /\ emails = 1 /\ mainPc = "tick"

\* The steps of connectAndRead in the order of the code.
SessionOrder ==
    << "connect", "settle", "services", "chars", "read", "disconnect", "done" >>

\* C26: the worker posts a success message only from the end of the full
\* sequence connect, settle delay, service found, characteristic found,
\* non-empty read decoded, disconnect completed; a success message or a
\* success outcome therefore comes with the peripheral disconnected and one
\* reading constructed for the attempt.
C26_SuccessAfterFullSession ==
    /\ []((msg.kind = "msg" /\ msg.success) =>
            /\ readings.kind = "reading" /\ msg.data = readings
            /\ Len(data.bytes) > 0
            /\ link = "disconnected")
    /\ [](promise = "success" =>
            (readings.kind = "reading" /\ link = "disconnected"))
    /\ [][ /\ \A k \in 2..6 :
                (wpc' = SessionOrder[k] /\ wpc # wpc') => wpc = SessionOrder[k - 1]
           /\ (msg' # msg /\ msg'.kind = "msg" /\ msg'.success) =>
                (wpc = "disconnect" /\ link' = "disconnected")
           /\ (wpc' = "settle" /\ wpc # wpc') => link' = "connected"
           /\ (readings' # readings /\ readings'.kind = "reading") =>
                (wpc = "read" /\ readings = NoReading) ]_vars

\* The example payload was read, the peripheral disconnected, and the
\* attempt's outcome is success.
C26_Witness ==
    /\ promise = "success" /\ link = "disconnected"
    /\ readings.kind = "reading" /\ readings.co2 = 1000

\* C23: startScanningAsync is called only while the adapter state is
\* 'poweredOn' (on a 'stateChange' event that carries 'poweredOn', or at
\* the synchronous check when startScanning subscribes): no call has been
\* made in any other state.
C23_StartOnlyPoweredOn == ~offStart

\* C24: once startScanning has resolved with a peripheral, its
\* 'stateChange' and 'discover' listeners are gone, scanning is stopped,
\* and scanning is not started again by that invocation.
C24_ResolvedStaysStopped ==
    scanPromise = "resolved" =>
        (lsState = 0 /\ lsDiscover = 0 /\ ~scanning)

\* C25: when a call that starts scanning has failed and was not recovered,
\* the promise of startScanning is rejected, so the failure reaches the
\* polling loop.
C25_StartFailureSurfaces == unrecovered => scanPromise = "rejected"

\* C27: while the PIN of a legacy challenge has been asked for and not yet
\* submitted, the session stays at the step the challenge arrived in: it
\* has not gone on to service discovery, characteristic discovery or the
\* read.
C27_PinBeforeNextStep ==
    pairing = "prompting" =>
        ~(wpc \in {"services", "chars", "read"} /\ wpc # challengeAt)

\* C29: an attempt that ended in failure or timeout has not posted its
\* reading, and no attempt posts more than once.
C29_PostOnlyOnSuccess ==
    /\ posts <= 1
    /\ promise \in {"failure", "timeout"} => posts = 0

\* C30: after startScanning has resolved or rejected none of the
\* listeners it registered ('stateChange', 'discover', 'security') is
\* still registered, and one security event opens at most one PIN prompt.
C30_ListenersBounded ==
    /\ scanPromise \in {"resolved", "rejected"} =>
           (lsState = 0 /\ lsDiscover = 0 /\ lsSecurity = 0)
    /\ prompts <= 1

\* C28: in the event-driven program at most one connectAndRead session is
\* started and in progress at any time, however many matching
\* advertisements are delivered before stopScanningAsync has completed.
C28_FirstMatchWins == Cardinality(SessionsInProgress) <= 1

\* C31: performReading posts exactly one message to the parent: never a
\* second one, and when it has returned (startScanning and connectAndRead
\* have settled) it has posted one.  A message is posted only by the step
\* that settles the two calls; it is a success message carrying the reading
\* when both succeeded and a failure message carrying the error text
\* otherwise.
C31_ExactlyOneMessage ==
    /\ [](sent <= 1)
    /\ [](wpc = "done" => sent = 1)
    /\ [](sent = 0 => msg = NoMsg)
    /\ [][ sent' = sent + 1 =>
             /\ wpc # "done" /\ wpc' = "done"
             /\ msg = NoMsg /\ msg'.kind = "msg"
             /\ IF msg'.success
                THEN /\ werror = "none" /\ readings.kind = "reading"
                     /\ msg'.data = readings /\ msg'.error = "none"
                ELSE /\ msg'.error # "none" /\ msg'.data = NoReading
                     /\ (wpc = "cleanup" => werror # "none") ]_vars

\* performReading has returned after the example payload was read and the
\* peripheral disconnected: its one message is the success message with
\* that reading.
C31_Witness ==
    /\ wpc = "done" /\ sent = 1
    /\ msg.kind = "msg" /\ msg.success /\ msg.data.co2 = 1000

\* C32: once the promise of runWorker is settled (success, failure or
\* timeout) its worker has exited or terminate() has been called on it; the
\* loop never resumes with the worker left running.
C32_SettledWorkerStopped ==
    /\ promise \in {"success", "failure", "timeout"} =>
           worker \in {"terminating", "exited", "reaped"}
    /\ mainPc \in {"email", "sleep"} => worker # "running"

\* A failure message has rejected the promise and terminate() was called on
\* the worker, which has not exited yet; main has resumed in its catch block.
C32_Witness ==
    /\ promise = "failure" /\ rejectedWith = "ServiceNotFound"
    /\ worker = "terminating" /\ mainPc = "email"

====
